---- MODULE Spec2Model ----
(***************************************************************************)
(* A model of the sdk-tinyerp client: the facade TinySDK, the transport    *)
(* TinyV2HttpClient, the error type TinyApiError and the Account, Contacts *)
(* and Products resources.  A call is followed from the resource method    *)
(* through the one fetch it issues to the value it returns or the error it *)
(* raises.                                                                 *)
(***************************************************************************)
EXTENDS Integers, Sequences, FiniteSets, TLC

VARIABLES sdk, calls

vars == <<sdk, calls>>

(***************************************************************************)
(* Bounds of the model.                                                    *)
(***************************************************************************)
MaxBatch == 2      \* entries in one create/update call
MaxRecords == 2    \* containers in one wrapped collection of a response
MaxErros == 2      \* entries of the erros list of an error envelope
MaxOptions == 2    \* keys in the options object of a search
MaxCalls == 2      \* calls in flight at once (specification SpecPair)

(***************************************************************************)
(* JavaScript values.  Every value has the same five fields so that any    *)
(* two values can be compared: t is the type tag, n the number, s the      *)
(* string, a the elements of an array, o the own properties of an object   *)
(* in insertion order, each a [k, v] pair.                                 *)
(***************************************************************************)
Undef == [t |-> "undefined", n |-> 0, s |-> "", a |-> <<>>, o |-> <<>>]
Null == [t |-> "null", n |-> 0, s |-> "", a |-> <<>>, o |-> <<>>]
Num(i) == [t |-> "number", n |-> i, s |-> "", a |-> <<>>, o |-> <<>>]
Str(x) == [t |-> "string", n |-> 0, s |-> x, a |-> <<>>, o |-> <<>>]
Arr(elems) == [t |-> "array", n |-> 0, s |-> "", a |-> elems, o |-> <<>>]
Obj(props) == [t |-> "object", n |-> 0, s |-> "", a |-> <<>>, o |-> props]
P(key, val) == [k |-> key, v |-> val]

\* The value an operator yields when the JavaScript it models throws a
\* TypeError (a property read of undefined or null, a call of a non-function).
Thrown == [t |-> "TypeError", n |-> 0, s |-> "", a |-> <<>>, o |-> <<>>]

IsThrown(v) == v.t = "TypeError"
IsNullish(v) == v.t \in {"undefined", "null"}

\* ToBoolean, as used by !token, by a ? b : c and by a && b.
Truthy(v) ==
  CASE v.t \in {"undefined", "null"} -> FALSE
    [] v.t = "number" -> v.n # 0
    [] v.t = "string" -> v.s # ""
    [] OTHER -> TRUE

Keys(obj) == [i \in 1..Len(obj.o) |-> obj.o[i].k]
HasKey(obj, key) == \E i \in 1..Len(obj.o) : obj.o[i].k = key

\* obj[key] or obj.key: a TypeError on undefined and null, undefined when the
\* property is missing (a primitive or an array has none of the keys used).
Get(obj, key) ==
  IF IsThrown(obj) \/ IsNullish(obj) THEN Thrown
  ELSE IF obj.t = "object" /\ HasKey(obj, key)
    THEN obj.o[CHOOSE i \in 1..Len(obj.o) : obj.o[i].k = key].v
    ELSE Undef

\* The effect of one property of an object literal: an own key keeps its
\* place and takes the new value, a new key goes to the end.
SetProp(props, key, val) ==
  IF \E i \in 1..Len(props) : props[i].k = key
  THEN [i \in 1..Len(props) |-> IF props[i].k = key THEN P(key, val) ELSE props[i]]
  ELSE Append(props, P(key, val))

\* The properties are set one after the other, each on the result of the
\* one before.  (CHOOSE over a one-element set names a value that is computed
\* once, as JavaScript computes an operand once; it chooses nothing.)
RECURSIVE SetProps(_, _)
SetProps(props, more) ==
  IF more = <<>> THEN props
  ELSE CHOOSE set \in
         {SetProps(first, rest) :
            first \in {SetProp(props, more[1].k, more[1].v)},
            rest \in {Tail(more)}} : TRUE

\* { ...src, k1: v1, ... }: spread copies the own properties of an object and
\* nothing from undefined or null.
Spread(src, more) ==
  Obj(SetProps(IF src.t = "object" THEN src.o ELSE <<>>, more))

RECURSIVE Join(_, _)
Join(strs, sep) ==
  IF strs = <<>> THEN ""
  ELSE IF Len(strs) = 1 THEN strs[1]
  ELSE strs[1] \o sep \o Join(Tail(strs), sep)

\* String(value), as applied to query and form values.
RECURSIVE String(_)
String(v) ==
  CASE v.t = "string" -> v.s
    [] v.t = "number" -> ToString(v.n)
    [] v.t = "undefined" -> "undefined"
    [] v.t = "null" -> "null"
    [] v.t = "array" ->
         Join([i \in 1..Len(v.a) |->
                 IF IsNullish(v.a[i]) THEN "" ELSE String(v.a[i])], ",")
    [] OTHER -> "[object Object]"

\* JSON.stringify: a property whose value is undefined is left out, an
\* undefined element of an array is written as null.
RECURSIVE JSONstringify(_)
JSONstringify(v) ==
  CASE v.t = "string" -> "\"" \o v.s \o "\""
    [] v.t = "number" -> ToString(v.n)
    [] v.t \in {"null", "undefined"} -> "null"
    [] v.t = "array" ->
         "[" \o Join([i \in 1..Len(v.a) |-> JSONstringify(v.a[i])], ",") \o "]"
    [] OTHER ->
         LET kept == SelectSeq(v.o, LAMBDA p : p.v.t # "undefined")
         IN "{" \o Join([i \in 1..Len(kept) |->
                          "\"" \o kept[i].k \o "\":" \o JSONstringify(kept[i].v)],
                        ",") \o "}"

(***************************************************************************)
(* Outcomes.  What a call (or the transport under it) ends with: a returned *)
(* value or a thrown error.  message holds the pieces of the template       *)
(* literal the message is built from.                                       *)
(***************************************************************************)
NoOutcome ==
  [kind |-> "pending", name |-> "", message |-> <<>>, value |-> Undef,
   codigo |-> Undef, statusProcessamento |-> Undef, erros |-> Undef]

Return(v) == [NoOutcome EXCEPT !.kind = "return", !.value = v]

ThrowError(parts) ==
  [NoOutcome EXCEPT !.kind = "throw", !.name = "Error", !.message = parts]

ThrowTypeError == [NoOutcome EXCEPT !.kind = "throw", !.name = "TypeError"]

\* A value that may be Thrown, as the outcome of the method that computed it.
Settle(v) == IF IsThrown(v) THEN ThrowTypeError ELSE Return(v)

Contains(message, piece) == \E i \in 1..Len(message) : message[i] = piece

(***************************************************************************)
(* errors/tiny-api-error.ts                                                *)
(***************************************************************************)
UnknownErrorMessage == "Ocorreu um erro desconhecido na API do Tiny."

\* list[0]
First(list) == IF list.t = "array" /\ Len(list.a) > 0 THEN list.a[1] ELSE Undef

\* The message an Error is given by super(text).
ErrorMessage(text) == IF text.t = "undefined" THEN "" ELSE String(text)

TinyApiError_UsesLastEntry(errorResponse) ==
  LET erros == Get(errorResponse, "erros")
      last == IF erros.t = "array" /\ Len(erros.a) > 0
              THEN erros.a[Len(erros.a)] ELSE Undef
      primaryErrorMessage ==
        IF Truthy(erros) /\ Truthy(last)
        THEN ErrorMessage(Get(last, "erro"))
        ELSE UnknownErrorMessage
  IN [kind |-> "throw", name |-> "TinyApiError",
      message |-> <<primaryErrorMessage>>, value |-> Undef,
      codigo |-> Get(errorResponse, "codigo_erro"),
      statusProcessamento |-> Get(errorResponse, "status_processamento"),
      erros |-> erros]

\* new TinyApiError(errorResponse), thrown.
TinyApiError(errorResponse) ==
  LET erros == Get(errorResponse, "erros")
      primaryErrorMessage ==
        IF Truthy(erros) /\ Truthy(First(erros))
        THEN ErrorMessage(Get(First(erros), "erro"))
        ELSE UnknownErrorMessage
  IN [kind |-> "throw", name |-> "TinyApiError",
      message |-> <<primaryErrorMessage>>, value |-> Undef,
      codigo |-> Get(errorResponse, "codigo_erro"),
      statusProcessamento |-> Get(errorResponse, "status_processamento"),
      erros |-> erros]

(***************************************************************************)
(* http-client.ts                                                          *)
(***************************************************************************)
API_V2_BASE_URL == "https://api.tiny.com.br/api2"

NoClient == [built |-> FALSE, token |-> Undef, baseUrl |-> ""]

TinyV2HttpClient_AcceptsAnyToken(token) ==
  [built |-> TRUE, token |-> token, baseUrl |-> API_V2_BASE_URL]

\* new TinyV2HttpClient(token): NoClient stands for the constructor throwing.
TinyV2HttpClient(token) ==
  IF ~Truthy(token) THEN NoClient
  ELSE [built |-> TRUE, token |-> token, baseUrl |-> API_V2_BASE_URL]

\* The RequestOptions that get and post hand to request.
get(params) == [method |-> "GET", params |-> params, body |-> Undef]
post(body) == [method |-> "POST", params |-> Undef, body |-> body]

Entries_SkipsNullish(obj) ==
  LET kept == SelectSeq(obj.o, LAMBDA p : ~IsNullish(p.v))
  IN [i \in 1..Len(kept) |-> [k |-> kept[i].k, v |-> String(kept[i].v)]]

\* Object.entries(obj).forEach(([key, value]) => p.append(key, String(value)))
Entries(obj) == [i \in 1..Len(obj.o) |-> [k |-> obj.o[i].k, v |-> String(obj.o[i].v)]]

NoRequest ==
  [url |-> "", searchParams |-> <<>>, method |-> "", hasBody |-> FALSE,
   body |-> <<>>, headers |-> <<>>]

AuthParams(client) ==
  << [k |-> "token", v |-> String(client.token)], [k |-> "formato", v |-> "json"] >>

request_AuthLast(client, endpoint, options) ==
  LET sendsParams == options.method = "GET" /\ Truthy(options.params)
      sendsBody == options.method = "POST" /\ Truthy(options.body)
  IN [url |-> client.baseUrl \o endpoint,
      searchParams |->
        (IF sendsParams THEN Entries(options.params) ELSE <<>>) \o AuthParams(client),
      method |-> options.method,
      hasBody |-> sendsBody,
      body |-> IF sendsBody THEN Entries(options.body) ELSE <<>>,
      headers |->
        IF sendsBody
        THEN << [k |-> "Content-Type", v |-> "application/x-www-form-urlencoded"] >>
        ELSE <<>>]

request_BodyInUrl(client, endpoint, options) ==
  LET sendsParams == options.method = "GET" /\ Truthy(options.params)
      sendsBody == options.method = "POST" /\ Truthy(options.body)
  IN [url |-> client.baseUrl \o endpoint,
      searchParams |->
        AuthParams(client)
          \o (IF sendsParams THEN Entries(options.params) ELSE <<>>)
          \o (IF sendsBody THEN Entries(options.body) ELSE <<>>),
      method |-> options.method,
      hasBody |-> FALSE,
      body |-> <<>>,
      headers |-> <<>>]

\* request, steps 1 to 3: the URL and the fetch options of the one fetch.
request(client, endpoint, options) ==
  LET sendsParams == options.method = "GET" /\ Truthy(options.params)
      sendsBody == options.method = "POST" /\ Truthy(options.body)
  IN [url |-> client.baseUrl \o endpoint,
      searchParams |->
        AuthParams(client) \o (IF sendsParams THEN Entries(options.params) ELSE <<>>),
      method |-> options.method,
      hasBody |-> sendsBody,
      body |-> IF sendsBody THEN Entries(options.body) ELSE <<>>,
      headers |->
        IF sendsBody
        THEN << [k |-> "Content-Type", v |-> "application/x-www-form-urlencoded"] >>
        ELSE <<>>]

NetworkErrorPrefix == "Falha de rede ao tentar aceder "
InvalidJsonPrefix == "A API Tiny retornou uma resposta inválida (não-JSON). Status: "

\* request, step 4, the catch: fetch rejected with an error of this message.
requestRejected(req, networkMessage) ==
  ThrowError(<<NetworkErrorPrefix, req.url, ". ", networkMessage>>)

\* A response body is the text of a JSON value, or text that is no JSON.
JsonBody(v) == [json |-> TRUE, value |-> v]
HtmlBody == [json |-> FALSE, value |-> Undef]

requestResolved_GuardsRetorno(httpStatus, body) ==
  IF ~body.json
  THEN ThrowError(<<InvalidJsonPrefix, ToString(httpStatus)>>)
  ELSE LET retorno == Get(body.value, "retorno")
           status == Get(retorno, "status")
       IN IF IsThrown(status) THEN ThrowError(<<InvalidJsonPrefix, ToString(httpStatus)>>)
          ELSE IF status = Str("Erro") THEN TinyApiError(retorno)
          ELSE Return(retorno)

requestResolved_OnlyOkSucceeds(httpStatus, body) ==
  IF ~body.json
  THEN ThrowError(<<InvalidJsonPrefix, ToString(httpStatus)>>)
  ELSE LET retorno == Get(body.value, "retorno")
           status == Get(retorno, "status")
       IN IF IsThrown(status) THEN ThrowTypeError
          ELSE IF status # Str("OK") THEN TinyApiError(retorno)
          ELSE Return(retorno)

requestResolved_ChecksHttpStatus(httpStatus, body) ==
  IF httpStatus >= 400 \/ ~body.json
  THEN ThrowError(<<InvalidJsonPrefix, ToString(httpStatus)>>)
  ELSE LET retorno == Get(body.value, "retorno")
           status == Get(retorno, "status")
       IN IF IsThrown(status) THEN ThrowTypeError
          ELSE IF status = Str("Erro") THEN TinyApiError(retorno)
          ELSE Return(retorno)

requestResolved_ErrorNeedsErros(httpStatus, body) ==
  IF ~body.json
  THEN ThrowError(<<InvalidJsonPrefix, ToString(httpStatus)>>)
  ELSE LET retorno == Get(body.value, "retorno")
           status == Get(retorno, "status")
       IN IF IsThrown(status) THEN ThrowTypeError
          ELSE IF status = Str("Erro") /\ Truthy(Get(retorno, "erros"))
            THEN TinyApiError(retorno)
          ELSE Return(retorno)

\* request, steps 5 and 6: the body is parsed, then retorno.status decides.
requestResolved(httpStatus, body) ==
  IF ~body.json
  THEN ThrowError(<<InvalidJsonPrefix, ToString(httpStatus)>>)
  ELSE LET retorno == Get(body.value, "retorno")
           status == Get(retorno, "status")
       IN IF IsThrown(status) THEN ThrowTypeError
          ELSE IF status = Str("Erro") THEN TinyApiError(retorno)
          ELSE Return(retorno)

(***************************************************************************)
(* The envelope codec the resources apply inline.                          *)
(***************************************************************************)
\* The array a map call yields, unless its callback threw for an element.
Mapped(out) ==
  CHOOSE mapped \in
    {IF \E i \in 1..Len(items) : IsThrown(items[i]) THEN Thrown ELSE Arr(items) :
       items \in {out}} : TRUE

\* coll.map((item) => item[key]): a TypeError when coll is no array (map of
\* undefined, or map is not a function) or when an item is undefined or null.
\* An item without the key yields undefined.
MapGet(coll, key) ==
  CHOOSE mapped \in
    {IF items.t # "array" THEN Thrown
     ELSE Mapped([i \in 1..Len(items.a) |-> Get(items.a[i], key)]) : items \in {coll}} : TRUE

OptMapGet_KeepsNullish(coll, key) ==
  IF IsThrown(coll) THEN Thrown
  ELSE IF IsNullish(coll) THEN coll
  ELSE MapGet(coll, key)

\* coll?.map((item) => item[key]) ?? []
OptMapGet(coll, key) ==
  IF IsThrown(coll) THEN Thrown
  ELSE IF IsNullish(coll) THEN Arr(<<>>)
  ELSE MapGet(coll, key)

WrapList_EmptyAsAbsent(list, key) ==
  IF IsThrown(list) THEN Thrown
  ELSE IF ~Truthy(list) THEN Arr(<<>>)
  ELSE IF list.t # "array" THEN Thrown
  ELSE IF list.a = <<>> THEN Undef
  ELSE Arr([i \in 1..Len(list.a) |-> Obj(<<P(key, list.a[i])>>)])

\* list ? list.map((x) => ({ [key]: x })) : []
WrapList(list, key) ==
  IF IsThrown(list) THEN Thrown
  ELSE IF ~Truthy(list) THEN Arr(<<>>)
  ELSE IF list.t # "array" THEN Thrown
  ELSE Arr([i \in 1..Len(list.a) |-> Obj(<<P(key, list.a[i])>>)])

\* { ...base, k1: v1, ... } where a vi may have thrown while being computed.
SpreadChecked(base, more) ==
  CHOOSE spread \in
    {IF IsThrown(src) \/ \E i \in 1..Len(props) : IsThrown(props[i].v) THEN Thrown
     ELSE Spread(src, props) : src \in {base}, props \in {more}} : TRUE

(***************************************************************************)
(* resources/account.ts                                                    *)
(***************************************************************************)
AccountGetInfoUnwrap_WholeRetorno(response) == Settle(response)

\* return typedResponse.conta
AccountGetInfoUnwrap(response) == Settle(Get(response, "conta"))

(***************************************************************************)
(* resources/contacts.ts                                                   *)
(***************************************************************************)
SearchParams_OptionsFirst(pesquisa, options) ==
  Spread(IF options.t = "object" THEN options ELSE Obj(<<>>),
         <<P("pesquisa", pesquisa)>>)

\* const params = { pesquisa, ...options }, options defaulting to {}.
SearchParams(pesquisa, options) ==
  Spread(Obj(<<P("pesquisa", pesquisa)>>),
         IF options.t = "object" THEN options.o ELSE <<>>)

ContactsSearchUnwrap_SpreadsResponse(response) ==
  LET contatos == MapGet(Get(response, "contatos"), "contato")
  IN Settle(SpreadChecked(response, <<P("contatos", contatos)>>))

ContactsSearchUnwrap(response) ==
  LET contatos == MapGet(Get(response, "contatos"), "contato")
  IN IF IsThrown(contatos) THEN ThrowTypeError
     ELSE Return(Obj(<<P("contatos", contatos),
                       P("pagina", Get(response, "pagina")),
                       P("numero_paginas", Get(response, "numero_paginas"))>>))

ContactsGetByIdUnwrap_PessoasWrapped(response) ==
  LET contatoApi == Get(response, "contato")
      tiposLimpos == MapGet(Get(contatoApi, "tipos_contato"), "tipo")
  IN Settle(SpreadChecked(contatoApi, <<P("tipos_contato", tiposLimpos)>>))

ContactsGetByIdUnwrap(response) ==
  LET contatoApi == Get(response, "contato")
      tiposLimpos == MapGet(Get(contatoApi, "tipos_contato"), "tipo")
      pessoasLimpas == MapGet(Get(contatoApi, "pessoas_contato"), "pessoa_contato")
  IN Settle(SpreadChecked(contatoApi, <<P("tipos_contato", tiposLimpos),
                                        P("pessoas_contato", pessoasLimpas)>>))

ContactsWrapEntry_OmitsAbsent(entry) ==
  LET data == Get(entry, "data")
      sequencia == Get(entry, "sequencia")
      present == SelectSeq(<<P("tipos_contato", "tipo"),
                             P("pessoas_contato", "pessoa_contato")>>,
                           LAMBDA f : HasKey(data, f.k))
      contato == SpreadChecked(data,
        <<P("sequencia", sequencia)>>
          \o [i \in 1..Len(present) |->
                P(present[i].k, WrapList(Get(data, present[i].k), present[i].v))])
  IN IF IsThrown(contato) THEN Thrown ELSE Obj(<<P("contato", contato)>>)

ContactsWrapEntry(entry) ==
  LET data == Get(entry, "data")
      sequencia == Get(entry, "sequencia")
      wrappedTipos == WrapList(Get(data, "tipos_contato"), "tipo")
      wrappedPessoas == WrapList(Get(data, "pessoas_contato"), "pessoa_contato")
      contato == SpreadChecked(data, <<P("sequencia", sequencia),
                                       P("tipos_contato", wrappedTipos),
                                       P("pessoas_contato", wrappedPessoas)>>)
  IN IF IsThrown(contato) THEN Thrown ELSE Obj(<<P("contato", contato)>>)

\* create and update build the same apiPayload.
ContactsPayload(contacts) ==
  LET contatos ==
        IF contacts.t # "array" THEN Thrown
        ELSE Mapped([i \in 1..Len(contacts.a) |-> ContactsWrapEntry(contacts.a[i])])
  IN IF IsThrown(contatos) THEN Thrown ELSE Obj(<<P("contatos", contatos)>>)

BatchUnwrap_DropsFailed(response) ==
  LET registros == Get(response, "registros")
      cleanResults == MapGet(registros, "registro")
  IN IF IsThrown(cleanResults) THEN ThrowTypeError
     ELSE Return(Arr(SelectSeq(cleanResults.a,
                               LAMBDA r : Get(r, "status") # Str("Erro"))))

BatchUnwrap_ByPosition(response) ==
  LET registros == Get(response, "registros")
      cleanResults == MapGet(registros, "registro")
  IN IF IsThrown(cleanResults) THEN ThrowTypeError
     ELSE Return(Arr([i \in 1..Len(cleanResults.a) |->
                        Spread(cleanResults.a[i], <<P("sequencia", Num(i))>>)]))

\* typedResponse.registros.map((r) => r.registro), of create and update, of
\* contacts and of products.
BatchUnwrap(response) == Settle(MapGet(Get(response, "registros"), "registro"))

(***************************************************************************)
(* resources/products.ts                                                   *)
(***************************************************************************)
ProductsSearchUnwrap(response) ==
  LET produtos == MapGet(Get(response, "produtos"), "produto")
  IN IF IsThrown(produtos) THEN ThrowTypeError
     ELSE Return(Obj(<<P("produtos", produtos),
                       P("pagina", Get(response, "pagina")),
                       P("numero_paginas", Get(response, "numero_paginas"))>>))

ProductsCleanVariacao_OnlyMapeamentos(v) ==
  LET variacao == Get(v, "variacao")
      cleanVarMapeamentos == OptMapGet(Get(variacao, "mapeamentos"), "mapeamento")
  IN IF IsThrown(cleanVarMapeamentos) THEN Thrown
     ELSE Obj(<<P("mapeamentos", cleanVarMapeamentos)>>)

ProductsCleanVariacao(v) ==
  LET variacao == Get(v, "variacao")
      cleanVarMapeamentos == OptMapGet(Get(variacao, "mapeamentos"), "mapeamento")
  IN SpreadChecked(variacao, <<P("mapeamentos", cleanVarMapeamentos)>>)

ProductsGetByIdUnwrap(response) ==
  LET produtoApi == Get(response, "produto")
      cleanAnexos == OptMapGet(Get(produtoApi, "anexos"), "anexo")
      cleanImagensExternas ==
        OptMapGet(Get(produtoApi, "imagens_externas"), "imagem_externa")
      cleanKit == OptMapGet(Get(produtoApi, "kit"), "item")
      cleanMapeamentos == OptMapGet(Get(produtoApi, "mapeamentos"), "mapeamento")
      variacoes == Get(produtoApi, "variacoes")
      cleanVariacoes ==
        IF IsThrown(variacoes) THEN Thrown
        ELSE IF IsNullish(variacoes) THEN Arr(<<>>)
        ELSE IF variacoes.t # "array" THEN Thrown
        ELSE Mapped([i \in 1..Len(variacoes.a) |->
                       ProductsCleanVariacao(variacoes.a[i])])
  IN Settle(SpreadChecked(produtoApi,
       <<P("anexos", cleanAnexos),
         P("imagens_externas", cleanImagensExternas),
         P("kit", cleanKit),
         P("mapeamentos", cleanMapeamentos),
         P("variacoes", cleanVariacoes)>>))

ProductsWrapVariacao_OnlyPresent(variacao) ==
  IF IsThrown(variacao) \/ IsNullish(variacao) THEN Thrown
  ELSE IF ~HasKey(variacao, "mapeamentos") THEN Obj(<<P("variacao", variacao)>>)
  ELSE Obj(<<P("variacao",
               Spread(variacao,
                      <<P("mapeamentos",
                          WrapList(Get(variacao, "mapeamentos"), "mapeamento"))>>))>>)

ProductsWrapVariacao(variacao) ==
  LET mapeamentos == WrapList(Get(variacao, "mapeamentos"), "mapeamento")
      wrapped == SpreadChecked(variacao, <<P("mapeamentos", mapeamentos)>>)
  IN IF IsThrown(wrapped) THEN Thrown ELSE Obj(<<P("variacao", wrapped)>>)

ProductsWrapEntry_DataLast(entry) ==
  LET data == Get(entry, "data")
      sequencia == Get(entry, "sequencia")
      variacoes == Get(data, "variacoes")
      wrappedVariacoes ==
        IF IsThrown(variacoes) THEN Thrown
        ELSE IF ~Truthy(variacoes) THEN Arr(<<>>)
        ELSE IF variacoes.t # "array" THEN Thrown
        ELSE Mapped([i \in 1..Len(variacoes.a) |->
                       ProductsWrapVariacao(variacoes.a[i])])
      own ==
        <<P("sequencia", sequencia),
          P("anexos", WrapList(Get(data, "anexos"), "anexo")),
          P("imagens_externas",
            WrapList(Get(data, "imagens_externas"), "imagem_externa")),
          P("kit", WrapList(Get(data, "kit"), "item")),
          P("estrutura", WrapList(Get(data, "estrutura"), "item")),
          P("etapas", WrapList(Get(data, "etapas"), "etapa")),
          P("variacoes", wrappedVariacoes),
          P("mapeamentos", WrapList(Get(data, "mapeamentos"), "mapeamento"))>>
  IN IF IsThrown(SpreadChecked(data, own)) THEN Thrown
     ELSE Obj(<<P("produto", Spread(Obj(own), data.o))>>)

ProductsWrapEntry(entry) ==
  LET data == Get(entry, "data")
      sequencia == Get(entry, "sequencia")
      variacoes == Get(data, "variacoes")
      wrappedVariacoes ==
        IF IsThrown(variacoes) THEN Thrown
        ELSE IF ~Truthy(variacoes) THEN Arr(<<>>)
        ELSE IF variacoes.t # "array" THEN Thrown
        ELSE Mapped([i \in 1..Len(variacoes.a) |->
                       ProductsWrapVariacao(variacoes.a[i])])
      produto == SpreadChecked(data,
        <<P("sequencia", sequencia),
          P("anexos", WrapList(Get(data, "anexos"), "anexo")),
          P("imagens_externas",
            WrapList(Get(data, "imagens_externas"), "imagem_externa")),
          P("kit", WrapList(Get(data, "kit"), "item")),
          P("estrutura", WrapList(Get(data, "estrutura"), "item")),
          P("etapas", WrapList(Get(data, "etapas"), "etapa")),
          P("variacoes", wrappedVariacoes),
          P("mapeamentos", WrapList(Get(data, "mapeamentos"), "mapeamento"))>>)
  IN IF IsThrown(produto) THEN Thrown ELSE Obj(<<P("produto", produto)>>)

ProductsPayload(products) ==
  LET produtos ==
        IF products.t # "array" THEN Thrown
        ELSE Mapped([i \in 1..Len(products.a) |-> ProductsWrapEntry(products.a[i])])
  IN IF IsThrown(produtos) THEN Thrown ELSE Obj(<<P("produtos", produtos)>>)

(***************************************************************************)
(* The operations of the facade: sdk.<resource>.<method>.                  *)
(***************************************************************************)
Operations ==
  {"account.getInfo", "contact.search", "contact.getById", "contact.create",
   "contact.update", "product.search", "product.getById", "product.create"}

GetOperations ==
  {"account.getInfo", "contact.search", "contact.getById", "product.search",
   "product.getById"}

WriteOperations == Operations \ GetOperations

ResourceOf(op) ==
  CASE op = "account.getInfo" -> "account"
    [] op \in {"contact.search", "contact.getById", "contact.create",
               "contact.update"} -> "contact"
    [] OTHER -> "product"

Endpoint(op) ==
  CASE op = "account.getInfo" -> "/info.php"
    [] op = "contact.search" -> "/contatos.pesquisa.php"
    [] op = "contact.getById" -> "/contato.obter.php"
    [] op = "contact.create" -> "/contato.incluir.php"
    [] op = "contact.update" -> "/contato.alterar.php"
    [] op = "product.search" -> "/produtos.pesquisa.php"
    [] op = "product.getById" -> "/produto.obter.php"
    [] OTHER -> "/produto.incluir.php"

\* The batch object a write operation builds from its entries (Undef for a GET).
ApiPayload(op, a1) ==
  CASE op \in {"contact.create", "contact.update"} -> ContactsPayload(a1)
    [] op = "product.create" -> ProductsPayload(a1)
    [] OTHER -> Undef

\* The form field that carries the serialized batch object.
BodyField(op) == IF op = "product.create" THEN "produto" ELSE "contato"

\* The part of a resource method before its await: what it hands to the
\* transport.  a1 and a2 are the method's arguments (Undef when it has none).
TransportCall(op, a1, a2) ==
  CASE op = "account.getInfo" -> get(Undef)
    [] op \in {"contact.search", "product.search"} -> get(SearchParams(a1, a2))
    [] op \in {"contact.getById", "product.getById"} -> get(Obj(<<P("id", a1)>>))
    [] OTHER ->
         post(Obj(<<P(BodyField(op), Str(JSONstringify(ApiPayload(op, a1))))>>))

Unwrap_UpdateKeepsContainers(op, response) ==
  CASE op = "account.getInfo" -> AccountGetInfoUnwrap(response)
    [] op = "contact.search" -> ContactsSearchUnwrap(response)
    [] op = "contact.getById" -> ContactsGetByIdUnwrap(response)
    [] op = "product.search" -> ProductsSearchUnwrap(response)
    [] op = "product.getById" -> ProductsGetByIdUnwrap(response)
    [] op = "contact.update" -> Settle(Get(response, "registros"))
    [] OTHER -> BatchUnwrap(response)

\* The part of a resource method after its await, given the transport's
\* success payload.
Unwrap(op, response) ==
  CASE op = "account.getInfo" -> AccountGetInfoUnwrap(response)
    [] op = "contact.search" -> ContactsSearchUnwrap(response)
    [] op = "contact.getById" -> ContactsGetByIdUnwrap(response)
    [] op = "product.search" -> ProductsSearchUnwrap(response)
    [] op = "product.getById" -> ProductsGetByIdUnwrap(response)
    [] OTHER -> BatchUnwrap(response)

(***************************************************************************)
(* index.ts                                                                *)
(***************************************************************************)
NoSDK == [st |-> "none", given |-> Undef, httpClient |-> NoClient, resources |-> {}]

\* new TinySDK(token): st = "threw" when the constructor threw.  given is the
\* constructor's argument.
TinySDK(token) ==
  LET httpClient == TinyV2HttpClient(token)
  IN IF ~httpClient.built
     THEN [st |-> "threw", given |-> token, httpClient |-> NoClient, resources |-> {}]
     ELSE [st |-> "ready", given |-> token, httpClient |-> httpClient,
           resources |-> {"account", "contact", "product"}]

(***************************************************************************)
(* A call: one invocation of an operation, from the method's entry to its   *)
(* outcome.  pc is "idle" (not invoked), "fetch" (awaiting fetch), "json"   *)
(* (awaiting response.json()) or "done".  fetches is the number of fetch    *)
(* calls made so far, settled how the fetch ended ("rejected" with          *)
(* networkError, or "resolved" with httpStatus and body), transport the     *)
(* outcome of TinyV2HttpClient.request and outcome that of the method.      *)
(***************************************************************************)
IdleCall ==
  [pc |-> "idle", op |-> "", a1 |-> Undef, a2 |-> Undef, apiPayload |-> Undef,
   request |-> NoRequest, fetches |-> 0, settled |-> "", networkError |-> "",
   httpStatus |-> 0, body |-> HtmlBody,
   transport |-> NoOutcome, outcome |-> NoOutcome]

Invoked_WrapsInPlace(client, op, a1, a2) ==
  LET payload == ApiPayload(op, a1)
  IN IF IsThrown(payload)
     THEN [IdleCall EXCEPT !.pc = "done", !.op = op, !.a1 = a1, !.a2 = a2,
                           !.transport = ThrowTypeError, !.outcome = ThrowTypeError]
     ELSE [IdleCall EXCEPT !.pc = "fetch", !.op = op,
                           !.a1 = IF payload.t = "object" THEN payload.o[1].v ELSE a1,
                           !.a2 = a2,
                           !.apiPayload = payload,
                           !.request = request(client, Endpoint(op),
                                               TransportCall(op, a1, a2)),
                           !.fetches = 1]

\* The method runs up to its first await: the transport has called fetch.
\* a1 and a2 stay what the caller passed: no statement of a method assigns to
\* its arguments or to anything reached from them.
Invoked(client, op, a1, a2) ==
  LET payload == ApiPayload(op, a1)
  IN IF IsThrown(payload)
     THEN [IdleCall EXCEPT !.pc = "done", !.op = op, !.a1 = a1, !.a2 = a2,
                           !.transport = ThrowTypeError, !.outcome = ThrowTypeError]
     ELSE [IdleCall EXCEPT !.pc = "fetch", !.op = op, !.a1 = a1, !.a2 = a2,
                           !.apiPayload = payload,
                           !.request = request(client, Endpoint(op),
                                               TransportCall(op, a1, a2)),
                           !.fetches = 1]

Rejected_Retries(call, networkMessage) ==
  IF call.fetches < 2
  THEN [call EXCEPT !.fetches = call.fetches + 1]
  ELSE [call EXCEPT !.pc = "done", !.settled = "rejected",
                    !.networkError = networkMessage,
                    !.transport = requestRejected(call.request, networkMessage),
                    !.outcome = requestRejected(call.request, networkMessage)]

\* fetch rejected: the transport throws, and so does the method.
Rejected(call, networkMessage) ==
  [call EXCEPT !.pc = "done", !.settled = "rejected",
               !.networkError = networkMessage,
               !.transport = requestRejected(call.request, networkMessage),
               !.outcome = requestRejected(call.request, networkMessage)]

\* fetch resolved with a Response: the transport awaits response.json().
Resolved(call, httpStatus, body) ==
  [call EXCEPT !.pc = "json", !.settled = "resolved",
               !.httpStatus = httpStatus, !.body = body]

\* response.json() settled: the transport returns or throws, and on a return
\* the method unwraps the payload.
Delivered_PollsWhileProcessing(call, transport) ==
  IF transport.kind = "return" /\ Get(transport.value, "status") = Str("Processando")
  THEN call
  ELSE [call EXCEPT !.pc = "done",
                    !.transport = transport,
                    !.outcome = IF transport.kind = "return"
                                THEN Unwrap(call.op, transport.value)
                                ELSE transport]

Delivered(call, transport) ==
  [call EXCEPT !.pc = "done",
               !.transport = transport,
               !.outcome = IF transport.kind = "return"
                           THEN Unwrap(call.op, transport.value)
                           ELSE transport]

\* The transport's outcome is one value, computed once and handed on.
Parsed(call) ==
  CHOOSE parsed \in {Delivered(call, transport) :
                       transport \in {requestResolved(call.httpStatus, call.body)}} :
    TRUE

(***************************************************************************)
(* The inputs the model draws from: arguments of the caller, responses of   *)
(* the provider.  wide is TRUE for the one-call specification and FALSE for *)
(* the specification with several calls in flight.                          *)
(***************************************************************************)
SeqsUpTo(S, n) == UNION {[1..k -> S] : k \in 0..n}

DistinctKeys(props) ==
  \A i, j \in 1..Len(props) : props[i].k = props[j].k => i = j

\* new TinySDK(token)
Tokens == {Undef, Str(""), Str("test_token_123")}

Pesquisas(wide) == IF wide THEN {Str("mouse"), Str("")} ELSE {Str("mouse")}

\* The last pair is a key no options interface declares: an object that holds
\* it besides declared keys is still accepted as the options argument.
OptionPairs ==
  {P("situacao", Str("A")), P("pagina", Num(2)), P("pagina", Undef), P("gtin", Null),
   P("token", Str("other"))}

\* The options argument of search: absent, or an object of up to MaxOptions keys.
SearchOptions(wide) ==
  IF wide
  THEN {Undef} \cup {Obj(q) : q \in {r \in SeqsUpTo(OptionPairs, MaxOptions) :
                                       DistinctKeys(r)}}
  ELSE {Obj(<<P("situacao", Str("A")), P("pagina", Num(2))>>)}

Ids(wide) == IF wide THEN {Num(7), Num(12345)} ELSE {Num(7)}

Entry(sequencia, data) == Obj(<<P("sequencia", Num(sequencia)), P("data", data)>>)

PessoaBia == Obj(<<P("nome", Str("Bia")), P("email", Str("bia@example.com"))>>)

ContactEntries ==
  {Entry(1, Obj(<<P("nome", Str("Ana")), P("situacao", Str("A"))>>)),
   Entry(2, Obj(<<P("nome", Str("Ana")), P("situacao", Str("A"))>>)),
   Entry(2, Obj(<<P("nome", Str("Joao")),
                  P("tipos_contato", Arr(<<Str("Cliente"), Str("Fornecedor")>>)),
                  P("pessoas_contato", Arr(<<PessoaBia>>))>>)),
   Entry(1, Obj(<<P("sequencia", Num(9)), P("nome", Str("Rui")),
                  P("tipos_contato", Arr(<<>>))>>))}

MapeamentoX == Obj(<<P("idEcommerce", Num(1)), P("skuMapeamento", Str("SKU-X"))>>)

ProductEntries ==
  {Entry(1, Obj(<<P("nome", Str("Mouse")), P("unidade", Str("UN"))>>)),
   Entry(2, Obj(<<P("nome", Str("Mouse")), P("unidade", Str("UN"))>>)),
   Entry(1, Obj(<<P("nome", Str("Camisa")),
                  P("variacoes",
                    Arr(<<Obj(<<P("codigo", Str("X")),
                                P("grade", Obj(<<P("Cor", Str("Azul"))>>))>>),
                          Obj(<<P("codigo", Str("Y")),
                                P("mapeamentos", Arr(<<MapeamentoX>>))>>)>>)),
                  P("anexos", Arr(<<Str("http://a/1.pdf")>>)),
                  P("imagens_externas",
                    Arr(<<Obj(<<P("url", Str("http://a/1.png"))>>),
                          Obj(<<P("url", Str("http://a/2.png"))>>)>>))>>)),
   Entry(2, Obj(<<P("kit", Arr(<<Obj(<<P("id_produto", Num(5)),
                                       P("quantidade", Num(2))>>)>>)),
                  P("sequencia", Num(9)),
                  P("nome", Str("Kit")),
                  P("mapeamentos", Arr(<<MapeamentoX>>)),
                  P("etapas", Arr(<<Str("Corte"), Str("Costura")>>)),
                  P("estrutura", Arr(<<>>))>>))}

Batches(entries, wide) ==
  IF wide THEN {Arr(q) : q \in SeqsUpTo(entries, MaxBatch)}
  ELSE {Arr(<<e>>) : e \in {x \in entries : Get(x, "sequencia") = Num(1)
                                              /\ HasKey(Get(x, "data"), "anexos")}}

\* The arguments <<a1, a2>> an operation may be called with.
Arguments(op, wide) ==
  CASE op = "account.getInfo" -> {<<Undef, Undef>>}
    [] op \in {"contact.search", "product.search"} ->
         Pesquisas(wide) \X SearchOptions(wide)
    [] op \in {"contact.getById", "product.getById"} -> Ids(wide) \X {Undef}
    [] op = "product.create" -> Batches(ProductEntries, wide) \X {Undef}
    [] OTHER -> Batches(ContactEntries, wide) \X {Undef}

\* The operations the caller invokes.
Offered(wide) ==
  IF wide THEN Operations
  ELSE {"account.getInfo", "contact.search", "contact.getById", "product.create"}

\* What fetch rejects with.
NetworkMessages(wide) ==
  IF wide THEN {"getaddrinfo ENOTFOUND api.tiny.com.br", "fetch failed"}
  ELSE {"fetch failed"}

HttpStatuses == {200, 500}

\* The retorno of an envelope: the status fields, then the payload fields.
Retorno(status, more) ==
  Obj(<<P("status_processamento", Num(IF status = "OK" THEN 3 ELSE 2)),
        P("status", Str(status))>> \o more)

Envelope(retorno) == JsonBody(Obj(<<P("retorno", retorno)>>))

ErroDetails ==
  {Obj(<<P("erro", Str("Token invalido ou expirado"))>>),
   Obj(<<P("erro", Str("Contato nao localizado"))>>)}

\* Error envelopes: with erros of up to MaxErros entries, with no erros, and
\* with nothing but the status.
ErrorBodies(wide) ==
  IF wide
  THEN {Envelope(Retorno("Erro", <<P("codigo_erro", Num(32)), P("erros", Arr(q))>>)) :
          q \in SeqsUpTo(ErroDetails, MaxErros)}
       \cup {Envelope(Retorno("Erro", <<P("codigo_erro", Num(5))>>)),
             Envelope(Obj(<<P("status", Str("Erro"))>>))}
  ELSE {Envelope(Retorno("Erro", <<P("codigo_erro", Num(32)),
                                   P("erros", Arr(<<e>>))>>)) :
          e \in {Obj(<<P("erro", Str("Token invalido ou expirado"))>>)}}

\* Bodies that are no envelope: no JSON, JSON null, {} and a null retorno.
BrokenBodies(wide) ==
  IF wide
  THEN {HtmlBody, JsonBody(Null), JsonBody(Obj(<<>>)), Envelope(Null)}
  ELSE {}

Conta == Obj(<<P("razao_social", Str("Acme")), P("cnpj_cpf", Str("1234567890001"))>>)

Contato1 == Obj(<<P("id", Num(7)), P("nome", Str("Ana"))>>)
Contato2 == Obj(<<P("id", Num(8)), P("nome", Str("Joao"))>>)
Produto1 == Obj(<<P("id", Num(7)), P("nome", Str("Mouse")), P("preco", Num(50))>>)
Produto2 == Obj(<<P("id", Num(8)), P("nome", Str("Teclado")), P("preco", Num(90))>>)

\* Wrapped collections of up to MaxRecords containers under key, one of the
\* possible containers lacking the key.
WrappedLists(key, records) ==
  {Arr(q) : q \in SeqsUpTo({Obj(<<P(key, r)>>) : r \in records}
                             \cup {Obj(<<P("outro", Num(0))>>)}, MaxRecords)}

Page(key, list) ==
  Retorno("OK", <<P("pagina", Num(2)), P("numero_paginas", Num(5)), P(key, list)>>)

ContatoDetalhes ==
  {Obj(<<P("id", Num(7)), P("nome", Str("Ana")),
         P("tipos_contato", Arr(<<Obj(<<P("tipo", Str("Cliente"))>>),
                                  Obj(<<P("tipo", Str("Fornecedor"))>>)>>)),
         P("pessoas_contato", Arr(<<Obj(<<P("pessoa_contato", PessoaBia)>>)>>))>>),
   Obj(<<P("id", Num(7)), P("tipos_contato", Arr(<<>>)),
         P("pessoas_contato", Arr(<<>>)), P("nome", Str("Ana"))>>),
   Obj(<<P("id", Num(7)), P("nome", Str("Ana")),
         P("pessoas_contato", Arr(<<Obj(<<P("pessoa_contato", PessoaBia)>>)>>))>>),
   Obj(<<P("id", Num(7)), P("nome", Str("Ana")),
         P("tipos_contato", Arr(<<Obj(<<P("tipo", Str("Cliente"))>>)>>))>>),
   Obj(<<P("id", Num(7)), P("nome", Str("Ana")),
         P("tipos_contato", Arr(<<Obj(<<P("outro", Num(0))>>)>>)),
         P("pessoas_contato", Arr(<<>>))>>)}

VariacaoApi(mapeamentos) ==
  Obj(<<P("variacao",
          Obj(<<P("id", Num(71)), P("codigo", Str("X")),
                P("grade", Obj(<<P("Cor", Str("Azul"))>>))>> \o mapeamentos))>>)

ProdutoDetalhes ==
  {Obj(<<P("id", Num(7)), P("nome", Str("Camisa")),
         P("anexos", Arr(<<Obj(<<P("anexo", Str("http://a/1.pdf"))>>)>>)),
         P("imagens_externas",
           Arr(<<Obj(<<P("imagem_externa", Obj(<<P("url", Str("http://a/1.png"))>>))>>)>>)),
         P("kit", Arr(<<Obj(<<P("item", Obj(<<P("id_produto", Num(5)),
                                              P("quantidade", Num(2))>>))>>)>>)),
         P("mapeamentos", Arr(<<Obj(<<P("mapeamento", MapeamentoX)>>)>>)),
         P("variacoes",
           Arr(<<VariacaoApi(<<P("mapeamentos",
                                 Arr(<<Obj(<<P("mapeamento", MapeamentoX)>>)>>))>>),
                 VariacaoApi(<<>>)>>)),
         P("preco", Num(50))>>),
   Obj(<<P("id", Num(7)), P("nome", Str("Mouse")), P("preco", Num(50))>>),
   Obj(<<P("id", Num(7)), P("nome", Str("Mouse")),
         P("anexos", Arr(<<>>)), P("kit", Null),
         P("variacoes", Arr(<<Obj(<<P("outro", Num(0))>>)>>))>>),
   Obj(<<P("id", Num(7)), P("nome", Str("Mouse")),
         P("mapeamentos", Arr(<<Obj(<<P("outro", Num(0))>>)>>)),
         P("variacoes", Arr(<<VariacaoApi(<<P("mapeamentos",
                                 Arr(<<Obj(<<P("outro", Num(0))>>)>>))>>)>>))>>)}

\* The per-record results of a batch: a success, and failures, each echoing a
\* sequencia.
Registros ==
  {Obj(<<P("sequencia", Num(1)), P("status", Str("OK")), P("id", Num(11111))>>),
   Obj(<<P("sequencia", Num(2)), P("status", Str("Erro")), P("codigo_erro", Num(5)),
         P("erros", Arr(<<Obj(<<P("erro", Str("Contato nao localizado"))>>)>>))>>),
   Obj(<<P("sequencia", Num(2)), P("status", Str("OK")), P("id", Num(22222))>>)}

\* The success payloads the provider answers an operation with.
SuccessBodies(op, wide) ==
  CASE op = "account.getInfo" ->
         {Envelope(Retorno("OK", <<P("conta", Conta)>>))}
    [] op = "contact.search" ->
         IF wide
         THEN {Envelope(Page("contatos", l)) :
                 l \in WrappedLists("contato", {Contato1, Contato2})}
         ELSE {Envelope(Page("contatos", Arr(<<Obj(<<P("contato", Contato1)>>)>>)))}
    [] op = "product.search" ->
         IF wide
         THEN {Envelope(Page("produtos", l)) :
                 l \in WrappedLists("produto", {Produto1, Produto2})}
         ELSE {Envelope(Page("produtos", Arr(<<Obj(<<P("produto", Produto1)>>)>>)))}
    [] op = "contact.getById" ->
         IF wide
         THEN {Envelope(Retorno("OK", <<P("contato", c)>>)) : c \in ContatoDetalhes}
         ELSE {Envelope(Retorno("OK", <<P("contato", c)>>)) :
                 c \in {d \in ContatoDetalhes :
                          /\ Get(d, "tipos_contato") = Arr(<<>>)
                          /\ Get(d, "pessoas_contato") = Arr(<<>>)}}
    [] op = "product.getById" ->
         {Envelope(Retorno("OK", <<P("produto", p)>>)) : p \in ProdutoDetalhes}
    [] OTHER ->
         IF wide
         THEN {Envelope(Retorno("OK", <<P("registros", l)>>)) :
                 l \in WrappedLists("registro", Registros)}
         ELSE {Envelope(Retorno("OK", <<P("registros",
                 Arr(<<Obj(<<P("registro", r)>>)>>))>>)) :
                 r \in {x \in Registros : Get(x, "status") = Str("Erro")}}

\* Envelopes whose status is not "OK" and not "Erro", or that have no status,
\* and a success envelope of another endpoint.
OddBodies(op, wide) ==
  IF wide
  THEN {Envelope(Retorno("Processando", <<P("conta", Conta)>>)),
        Envelope(Retorno("erro", <<P("conta", Conta)>>)),
        Envelope(Obj(<<P("conta", Conta)>>)),
        Envelope(Retorno("OK", <<>>))}
  ELSE {}

\* The bodies the provider may answer an operation with.
Bodies(op, wide) ==
  BrokenBodies(wide) \cup ErrorBodies(wide) \cup SuccessBodies(op, wide)
    \cup OddBodies(op, wide)

(***************************************************************************)
(* The state machine.                                                      *)
(***************************************************************************)
CallIds == DOMAIN calls
Wide == Cardinality(DOMAIN calls) = 1

Init ==
  /\ sdk = NoSDK
  /\ calls = [c \in 1..1 |-> IdleCall]

InitPair ==
  /\ sdk = NoSDK
  /\ calls = [c \in 1..MaxCalls |-> IdleCall]

\* new TinySDK(token)
Construct(token) ==
  /\ sdk.st = "none"
  /\ sdk' = TinySDK(token)
  /\ UNCHANGED calls

Invoke_SharedRequest(c, op, a1, a2) ==
  /\ sdk.st = "ready"
  /\ ResourceOf(op) \in sdk.resources
  /\ calls[c].pc = "idle"
  /\ calls' = [d \in DOMAIN calls |->
                IF d = c THEN Invoked(sdk.httpClient, op, a1, a2)
                ELSE IF calls[d].pc = "fetch"
                  THEN [calls[d] EXCEPT
                          !.request = Invoked(sdk.httpClient, op, a1, a2).request]
                  ELSE calls[d]]
  /\ UNCHANGED sdk

\* sdk.<resource>.<method>(a1, a2), up to the await of fetch.
Invoke(c, op, a1, a2) ==
  /\ sdk.st = "ready"
  /\ ResourceOf(op) \in sdk.resources
  /\ calls[c].pc = "idle"
  /\ calls' = [calls EXCEPT ![c] = Invoked(sdk.httpClient, op, a1, a2)]
  /\ UNCHANGED sdk

\* fetch rejects (no connection, DNS failure).
FetchRejects(c, networkMessage) ==
  /\ calls[c].pc = "fetch"
  /\ calls' = [calls EXCEPT ![c] = Rejected(calls[c], networkMessage)]
  /\ UNCHANGED sdk

\* fetch resolves with a Response of some status and body.
FetchResolves(c, httpStatus, body) ==
  /\ calls[c].pc = "fetch"
  /\ calls' = [calls EXCEPT ![c] = Resolved(calls[c], httpStatus, body)]
  /\ UNCHANGED sdk

\* response.json() settles; the call runs to its end.
JsonSettles(c) ==
  /\ calls[c].pc = "json"
  /\ calls' = [calls EXCEPT ![c] = Parsed(calls[c])]
  /\ UNCHANGED sdk

\* The caller takes the outcome; the next call may be made.
Collect(c) ==
  /\ calls[c].pc = "done"
  /\ calls' = [calls EXCEPT ![c] = IdleCall]
  /\ UNCHANGED sdk

\* Any operation with any arguments, on a call that is not yet invoked.
InvokeAny(c) ==
  /\ calls[c].pc = "idle"
  /\ sdk.st = "ready"
  /\ \E op \in Offered(Wide) :
       \E args \in Arguments(op, Wide) : Invoke(c, op, args[1], args[2])

\* Any settlement of the fetch a call awaits.
FetchSettles(c) ==
  /\ calls[c].pc = "fetch"
  /\ \/ \E m \in NetworkMessages(Wide) : FetchRejects(c, m)
     \/ \E httpStatus \in HttpStatuses :
          \E body \in Bodies(calls[c].op, Wide) : FetchResolves(c, httpStatus, body)

Next ==
  \/ \E token \in Tokens : Construct(token)
  \/ \E c \in CallIds : InvokeAny(c)
  \/ \E c \in CallIds : FetchSettles(c)
  \/ \E c \in CallIds : JsonSettles(c)
  \/ \E c \in CallIds : Collect(c)

Spec == Init /\ [][Next]_vars

SpecPair == InitPair /\ [][Next]_vars

\* The continuation of await response.json() is a job of the event loop: once
\* the response has arrived it runs.  Nothing obliges fetch to settle.
SpecLive == Init /\ [][Next]_vars /\ WF_vars(\E c \in CallIds : JsonSettles(c))

(***************************************************************************)
(* Properties.                                                             *)
(***************************************************************************)
Started(c) == calls[c].pc # "idle"
Done(c) == calls[c].pc = "done"

\* The retorno of a parsed body, and whether it is an error envelope.
RetornoOf(body) == Get(body.value, "retorno")

IsErrorEnvelope(body) ==
  /\ body.json
  /\ body.value.t = "object"
  /\ RetornoOf(body).t = "object"
  /\ Get(RetornoOf(body), "status") = Str("Erro")

\* C1: for every operation, an HTTP 200 response whose JSON body has
\* retorno.status = "Erro" makes the call raise TinyApiError: it never returns,
\* and the payload fields the error body lacks never turn the failure into
\* another error.
C1_BusinessErrorRaises ==
  \A c \in CallIds :
    (Done(c) /\ calls[c].settled = "resolved" /\ calls[c].httpStatus = 200
       /\ IsErrorEnvelope(calls[c].body))
    => /\ calls[c].outcome.kind = "throw"
       /\ calls[c].outcome.name = "TinyApiError"

C1_Witness ==
  \E c \in CallIds :
    /\ Done(c) /\ calls[c].op = "contact.create"
    /\ calls[c].httpStatus = 200
    /\ calls[c].body = Envelope(Obj(<<P("status", Str("Erro"))>>))
    /\ calls[c].outcome.name = "TinyApiError"

\* C2: the outcome of a call does not depend on the HTTP status when the body
\* parses as JSON: two calls of the same operation with the same arguments
\* that received the same JSON body, under any two HTTP statuses, end with the
\* same returned payload or with a TinyApiError of the same fields.
C2_OutcomeIndependentOfHttpStatus ==
  \A c, d \in CallIds :
    (/\ Done(c) /\ Done(d)
     /\ calls[c].settled = "resolved" /\ calls[d].settled = "resolved"
     /\ calls[c].op = calls[d].op
     /\ calls[c].a1 = calls[d].a1 /\ calls[c].a2 = calls[d].a2
     /\ calls[c].body.json /\ calls[c].body = calls[d].body)
    => calls[c].outcome = calls[d].outcome

C2_Witness ==
  \E c, d \in CallIds :
    /\ Done(c) /\ Done(d) /\ calls[c].op = calls[d].op
    /\ calls[c].body.json /\ calls[c].body = calls[d].body
    /\ calls[c].httpStatus = 200 /\ calls[d].httpStatus = 500
    /\ calls[c].outcome.name = "TinyApiError"
    /\ calls[c].outcome = calls[d].outcome

\* C3: every call ends in exactly one of four outcomes, decided in this
\* order: fetch rejects -> a plain Error whose message contains the underlying
\* message; the body is no JSON -> a plain Error whose message contains the
\* HTTP status; retorno.status = "Erro" -> TinyApiError; otherwise the inner
\* retorno is returned by the transport.
C3_FourOutcomes ==
  \A c \in CallIds :
    Done(c) =>
      LET call == calls[c]
          out == call.transport
      IN CASE call.settled = "rejected" ->
                /\ out.kind = "throw" /\ out.name = "Error"
                /\ Contains(out.message, call.networkError)
           [] call.settled = "resolved" /\ ~call.body.json ->
                /\ out.kind = "throw" /\ out.name = "Error"
                /\ Contains(out.message, ToString(call.httpStatus))
           [] call.settled = "resolved" /\ IsErrorEnvelope(call.body) ->
                /\ out.kind = "throw" /\ out.name = "TinyApiError"
           [] OTHER ->
                /\ out.kind = "return"
                /\ call.body.value.t = "object"
                /\ HasKey(call.body.value, "retorno")
                /\ out.value = Get(call.body.value, "retorno")

\* C4: a TinyApiError built from an error envelope has message = the text of
\* the first entry of erros when erros is present and not empty, else the
\* fallback literal; codigo = codigo_erro; statusProcessamento =
\* status_processamento; erros = the envelope's list, in the same order.
C4_ErrorFields ==
  \A c \in CallIds :
    (Done(c) /\ calls[c].outcome.name = "TinyApiError") =>
      LET env == RetornoOf(calls[c].body)
          err == calls[c].outcome
          list == IF HasKey(env, "erros") THEN Get(env, "erros") ELSE Undef
      IN /\ err.message =
              IF list.t = "array" /\ Len(list.a) > 0
              THEN <<Get(list.a[1], "erro").s>>
              ELSE <<"Ocorreu um erro desconhecido na API do Tiny.">>
         /\ err.codigo = IF HasKey(env, "codigo_erro")
                         THEN Get(env, "codigo_erro") ELSE Undef
         /\ err.statusProcessamento = IF HasKey(env, "status_processamento")
                                      THEN Get(env, "status_processamento") ELSE Undef
         /\ err.erros = list
         /\ list.t = "array" =>
              /\ Len(err.erros.a) = Len(list.a)
              /\ \A i \in 1..Len(list.a) : err.erros.a[i] = list.a[i]

C4_Witness ==
  \E c \in CallIds :
    /\ Done(c) /\ calls[c].outcome.name = "TinyApiError"
    /\ Len(calls[c].outcome.erros.a) = 2
    /\ calls[c].outcome.erros.a[1] # calls[c].outcome.erros.a[2]
    /\ calls[c].outcome.message = <<Get(calls[c].outcome.erros.a[1], "erro").s>>
    /\ calls[c].outcome.codigo = Num(32)

\* C5: constructing the client (and so the SDK) with an empty or absent token
\* throws at construction: no client and no resource object results, and no
\* HTTP request is ever issued for that construction.
C5_EmptyTokenFailsFast ==
  (sdk.st # "none" /\ (sdk.given.t = "undefined" \/ sdk.given = Str("")))
  => /\ sdk.st = "threw"
     /\ ~sdk.httpClient.built
     /\ sdk.resources = {}
     /\ \A c \in CallIds : ~Started(c) /\ calls[c].fetches = 0

C5_Witness == sdk.st = "threw" /\ sdk.given = Str("") /\ sdk.resources = {}

\* The parameters the caller supplied to a GET operation, in the order
\* supplied and in textual form.
CallerParams(op, a1, a2) ==
  CASE op \in {"contact.search", "product.search"} ->
         <<[k |-> "pesquisa", v |-> String(a1)]>>
           \o (IF a2.t = "object"
               THEN [i \in 1..Len(a2.o) |-> [k |-> a2.o[i].k, v |-> String(a2.o[i].v)]]
               ELSE <<>>)
    [] op \in {"contact.getById", "product.getById"} ->
         <<[k |-> "id", v |-> String(a1)]>>
    [] OTHER -> <<>>

\* C6: for every GET operation the query string lists, in this order,
\* token=<credential>, formato=json, then each caller-supplied parameter once,
\* in the order supplied (pesquisa, then the option keys in their order), each
\* value in its textual form.
C6_GetQueryOrder ==
  \A c \in CallIds :
    (Started(c) /\ calls[c].op \in GetOperations) =>
      /\ calls[c].request.method = "GET"
      /\ calls[c].request.searchParams =
           <<[k |-> "token", v |-> sdk.given.s], [k |-> "formato", v |-> "json"]>>
             \o CallerParams(calls[c].op, calls[c].a1, calls[c].a2)

C6_Witness ==
  \E c \in CallIds :
    /\ calls[c].pc = "fetch" /\ calls[c].op = "product.search"
    /\ calls[c].a1 = Str("mouse")
    /\ calls[c].a2 = Obj(<<P("situacao", Str("A")), P("pagina", Num(2))>>)
    /\ calls[c].request.searchParams =
         <<[k |-> "token", v |-> "test_token_123"], [k |-> "formato", v |-> "json"],
           [k |-> "pesquisa", v |-> "mouse"], [k |-> "situacao", v |-> "A"],
           [k |-> "pagina", v |-> "2"]>>

AuthKeys == {"token", "formato"}

\* C7 as stated: in every request's query string token and formato come after
\* the caller-supplied parameters, every caller-supplied parameter preceding
\* them.
C7_AuthAfterCallerParams ==
  \A c \in CallIds :
    Started(c) =>
      LET q == calls[c].request.searchParams
      IN \A i, j \in 1..Len(q) :
           (q[i].k \notin AuthKeys /\ q[j].k \in AuthKeys) => i < j

\* C7 amended: in every request's query string token and formato=json are the
\* first two parameters, in that order, and every caller-supplied parameter
\* follows them.
C7_AuthBeforeCallerParams ==
  \A c \in CallIds :
    Started(c) =>
      LET q == calls[c].request.searchParams
      IN /\ Len(q) >= 2
         /\ q[1].k = "token" /\ q[2] = [k |-> "formato", v |-> "json"]
         /\ SubSeq(q, 3, Len(q)) =
              CallerParams(calls[c].op, calls[c].a1, calls[c].a2)

C7_Witness ==
  \E c \in CallIds :
    /\ Started(c) /\ calls[c].op = "contact.getById"
    /\ Len(calls[c].request.searchParams) = 3
    /\ calls[c].request.searchParams[3].k = "id"

\* C8: every write operation issues a POST whose query string holds only
\* token and formato, whose Content-Type is
\* application/x-www-form-urlencoded and whose body has exactly one form
\* field ("contato" for contacts, "produto" for products), its value the JSON
\* serialization of the whole batch object; no entry field is in the URL.
C8_WriteRequestShape ==
  \A c \in CallIds :
    (Started(c) /\ calls[c].op \in WriteOperations) =>
      LET req == calls[c].request
          batch == calls[c].apiPayload
          listKey == IF calls[c].op = "product.create" THEN "produtos" ELSE "contatos"
      IN /\ req.method = "POST"
         /\ [i \in 1..Len(req.searchParams) |-> req.searchParams[i].k]
              = <<"token", "formato">>
         /\ req.headers =
              <<[k |-> "Content-Type", v |-> "application/x-www-form-urlencoded"]>>
         /\ req.hasBody /\ Len(req.body) = 1
         /\ req.body[1].k =
              (IF calls[c].op = "product.create" THEN "produto" ELSE "contato")
         /\ req.body[1].v = JSONstringify(batch)
         /\ Keys(batch) = <<listKey>>
         /\ Len(Get(batch, listKey).a) = Len(calls[c].a1.a)

C8_Witness ==
  \E c \in CallIds :
    /\ calls[c].pc = "fetch" /\ calls[c].op = "product.create"
    /\ Len(calls[c].a1.a) = 2
    /\ calls[c].request.method = "POST"
    /\ Len(calls[c].request.body) = 1
    /\ Len(calls[c].request.searchParams) = 2

\* C9: every invocation of a resource method issues exactly one HTTP request,
\* whatever the batch size, whatever numero_paginas the response reports and
\* whatever the outcome: a failed call is not retried and a search fetches no
\* further page.
C9_OneRequestPerCall ==
  \A c \in CallIds : Started(c) => calls[c].fetches = 1

C9_Witness ==
  \E c \in CallIds :
    /\ Done(c) /\ calls[c].op = "contact.search"
    /\ calls[c].outcome.kind = "return"
    /\ Get(calls[c].outcome.value, "pagina") = Num(2)
    /\ Get(calls[c].outcome.value, "numero_paginas") = Num(5)
    /\ calls[c].fetches = 1

\* A wrapped collection whose containers all are single-key {key: r}.
WellWrapped(list, key) ==
  /\ list.t = "array"
  /\ \A i \in 1..Len(list.a) : list.a[i].t = "object" /\ Keys(list.a[i]) = <<key>>

\* C10: when the top-level status of a batch response is "OK", create/update
\* returns, without raising, the provider's registros with each {registro: r}
\* container replaced by r: same length, same order, the entries whose own
\* status is "Erro" delivered as data next to the successful ones.
C10_BatchResultsDelivered ==
  \A c \in CallIds :
    (/\ Done(c) /\ calls[c].op \in WriteOperations
     /\ calls[c].settled = "resolved" /\ calls[c].body.json
     /\ calls[c].body.value.t = "object"
     /\ RetornoOf(calls[c].body).t = "object"
     /\ Get(RetornoOf(calls[c].body), "status") = Str("OK")
     /\ WellWrapped(Get(RetornoOf(calls[c].body), "registros"), "registro"))
    => LET registros == Get(RetornoOf(calls[c].body), "registros").a
           out == calls[c].outcome
       IN /\ out.kind = "return"
          /\ out.value.t = "array"
          /\ Len(out.value.a) = Len(registros)
          /\ \A i \in 1..Len(registros) : out.value.a[i] = registros[i].o[1].v

C10_Witness ==
  \E c \in CallIds :
    /\ Done(c) /\ calls[c].op = "contact.update"
    /\ calls[c].outcome.kind = "return"
    /\ Len(calls[c].outcome.value.a) = 2
    /\ Get(calls[c].outcome.value.a[1], "status") = Str("Erro")
    /\ Get(calls[c].outcome.value.a[1], "sequencia") = Num(2)
    /\ Get(calls[c].outcome.value.a[2], "status") = Str("OK")
    /\ Get(calls[c].outcome.value.a[2], "sequencia") = Num(1)

\* The sequencia values of a list of records, in order (Thrown for an element
\* that is no record).
Sequencias(list) == [i \in 1..Len(list) |-> Get(list[i], "sequencia")]

\* How many times a value occurs in a sequence.
Occurrences(seq, v) == Cardinality({i \in 1..Len(seq) : seq[i] = v})

\* A batch call that returned.
BatchReturned(c) ==
  /\ Done(c) /\ calls[c].op \in WriteOperations
  /\ calls[c].outcome.kind = "return"

IsWrappingOf(w, flat, key) ==
  /\ w.t = "array"
  /\ IF flat.t = "array"
     THEN /\ Len(w.a) = Len(flat.a)
          /\ \A j \in 1..Len(flat.a) : w.a[j] = Obj(<<P(key, flat.a[j])>>)
     ELSE flat = Undef /\ w.a = <<>>

\* The properties of an object other than those of the given keys, in order.
OtherProps(obj, keys) == SelectSeq(obj.o, LAMBDA p : p.k \notin keys)

\* The nested collections product.create wraps, with their container keys.
ProductWrappedFields ==
  {<<"anexos", "anexo">>, <<"imagens_externas", "imagem_externa">>,
   <<"kit", "item">>, <<"estrutura", "item">>, <<"etapas", "etapa">>,
   <<"mapeamentos", "mapeamento">>}

\* C12: product.create builds, per entry and in input order, one
\* {produto: ...} container in which anexos, imagens_externas, kit, estrutura,
\* etapas and mapeamentos are wrapped under their keys with the input's
\* length and order (the empty list when absent or empty), and variacoes is
\* wrapped under "variacao", each variation with its mapeamentos wrapped
\* under "mapeamento" (empty when absent) and its other fields unchanged.
C12_ProductCreateWraps ==
  \A c \in CallIds :
    (Started(c) /\ calls[c].op = "product.create") =>
      LET entries == calls[c].a1.a
          batch == calls[c].apiPayload
          produtos == Get(batch, "produtos")
      IN /\ batch.t = "object" /\ produtos.t = "array"
         /\ Len(produtos.a) = Len(entries)
         /\ \A i \in 1..Len(entries) :
              LET data == Get(entries[i], "data")
                  produto == Get(produtos.a[i], "produto")
                  flatVars == Get(data, "variacoes")
                  wrappedVars == Get(produto, "variacoes")
              IN /\ Keys(produtos.a[i]) = <<"produto">>
                 /\ \A f \in ProductWrappedFields :
                      IsWrappingOf(Get(produto, f[1]), Get(data, f[1]), f[2])
                 /\ wrappedVars.t = "array"
                 /\ IF flatVars.t = "array"
                    THEN /\ Len(wrappedVars.a) = Len(flatVars.a)
                         /\ \A j \in 1..Len(flatVars.a) :
                              LET v == Get(wrappedVars.a[j], "variacao")
                              IN /\ Keys(wrappedVars.a[j]) = <<"variacao">>
                                 /\ IsWrappingOf(Get(v, "mapeamentos"),
                                                 Get(flatVars.a[j], "mapeamentos"),
                                                 "mapeamento")
                                 /\ OtherProps(v, {"mapeamentos"})
                                      = OtherProps(flatVars.a[j], {"mapeamentos"})
                    ELSE flatVars = Undef /\ wrappedVars.a = <<>>

\* A product with two variations, one without mapeamentos, with one anexo
\* and two imagens_externas and without kit, has been wrapped.
C12_Witness ==
  \E c \in CallIds :
    /\ calls[c].pc = "fetch" /\ calls[c].op = "product.create"
    /\ \E i \in 1..Len(calls[c].a1.a) :
         LET data == Get(calls[c].a1.a[i], "data")
             produto == Get(Get(calls[c].apiPayload, "produtos").a[i], "produto")
         IN /\ Len(Get(data, "variacoes").a) = 2
            /\ ~HasKey(Get(data, "variacoes").a[1], "mapeamentos")
            /\ Len(Get(data, "variacoes").a[2].o) = 2
            /\ Get(Get(produto, "variacoes").a[1], "variacao")
                 = Obj(<<P("codigo", Str("X")),
                         P("grade", Obj(<<P("Cor", Str("Azul"))>>)),
                         P("mapeamentos", Arr(<<>>))>>)
            /\ Len(Get(produto, "imagens_externas").a) = 2
            /\ ~HasKey(data, "kit") /\ Get(produto, "kit") = Arr(<<>>)

\* C13: contact.create and contact.update build, per entry and in input
\* order, one {contato: ...} container that carries the entry's sequencia,
\* with tipos_contato wrapped under "tipo" and pessoas_contato under
\* "pessoa_contato" in the input's length and order (the empty list, not an
\* omitted field, when absent); every other field is copied unchanged.
C13_ContactBatchWraps ==
  \A c \in CallIds :
    (Started(c) /\ calls[c].op \in {"contact.create", "contact.update"}) =>
      LET entries == calls[c].a1.a
          batch == calls[c].apiPayload
          contatos == Get(batch, "contatos")
          special == {"sequencia", "tipos_contato", "pessoas_contato"}
      IN /\ batch.t = "object" /\ contatos.t = "array"
         /\ Len(contatos.a) = Len(entries)
         /\ \A i \in 1..Len(entries) :
              LET data == Get(entries[i], "data")
                  contato == Get(contatos.a[i], "contato")
              IN /\ Keys(contatos.a[i]) = <<"contato">>
                 /\ Get(contato, "sequencia") = Get(entries[i], "sequencia")
                 /\ HasKey(contato, "tipos_contato")
                 /\ HasKey(contato, "pessoas_contato")
                 /\ IsWrappingOf(Get(contato, "tipos_contato"),
                                 Get(data, "tipos_contato"), "tipo")
                 /\ IsWrappingOf(Get(contato, "pessoas_contato"),
                                 Get(data, "pessoas_contato"), "pessoa_contato")
                 /\ OtherProps(contato, special) = OtherProps(data, special)

\* An update of two contacts, the first without nested collections, the
\* second with two types and one person, has been wrapped.
C13_Witness ==
  \E c \in CallIds :
    /\ calls[c].pc = "fetch" /\ calls[c].op = "contact.update"
    /\ Len(calls[c].a1.a) = 2
    /\ ~HasKey(Get(calls[c].a1.a[1], "data"), "tipos_contato")
    /\ ~HasKey(Get(calls[c].a1.a[1], "data"), "pessoas_contato")
    /\ Get(Get(calls[c].apiPayload, "contatos").a[1], "contato")
         = Obj(<<P("nome", Str("Ana")), P("situacao", Str("A")),
                 P("sequencia", Num(1)), P("tipos_contato", Arr(<<>>)),
                 P("pessoas_contato", Arr(<<>>))>>)
    /\ Get(Get(Get(calls[c].apiPayload, "contatos").a[2], "contato"),
           "tipos_contato")
         = Arr(<<Obj(<<P("tipo", Str("Cliente"))>>),
                 Obj(<<P("tipo", Str("Fornecedor"))>>)>>)
    /\ Get(Get(Get(calls[c].apiPayload, "contatos").a[2], "contato"),
           "pessoas_contato")
         = Arr(<<Obj(<<P("pessoa_contato", PessoaBia)>>)>>)

\* The same entries given to the other of contact.create and contact.update,
\* and that call answered as call c was.
ContactTwinOp(op) == IF op = "contact.create" THEN "contact.update" ELSE "contact.create"

ContactTwin(c) ==
  LET invoked == Invoked(sdk.httpClient, ContactTwinOp(calls[c].op),
                         calls[c].a1, calls[c].a2)
  IN IF calls[c].settled = "resolved" /\ invoked.pc = "fetch"
     THEN IF Done(c)
          THEN Parsed(Resolved(invoked, calls[c].httpStatus, calls[c].body))
          ELSE Resolved(invoked, calls[c].httpStatus, calls[c].body)
     ELSE invoked

AbsentOrWellWrapped(w, key) == IsNullish(w) \/ WellWrapped(w, key)

\* flat is the unwrapping of the provider's field w: the values under key, in
\* order; the empty list when w is absent, null or empty.
IsUnwrappingOf(flat, w, key) ==
  /\ flat.t = "array"
  /\ IF w.t = "array"
     THEN /\ Len(flat.a) = Len(w.a)
          /\ \A j \in 1..Len(w.a) : flat.a[j] = w.a[j].o[1].v
     ELSE flat.a = <<>>

\* The nested collections product.getById unwraps, with their container keys.
ProductUnwrappedFields ==
  {<<"anexos", "anexo">>, <<"imagens_externas", "imagem_externa">>,
   <<"kit", "item">>, <<"mapeamentos", "mapeamento">>}

\* The success payload a call's transport returned (Undef when it did not).
PayloadOf(c) ==
  IF Done(c) /\ calls[c].transport.kind = "return"
  THEN calls[c].transport.value ELSE Undef

\* C15: product.getById returns the provider's product with anexos,
\* imagens_externas, kit, mapeamentos and variacoes flat, in the provider's
\* length and order, every variation with its own mapeamentos flat; each of
\* the six is the empty list, never null or missing, when the provider's
\* field is absent or empty.
C15_ProductGetByIdUnwraps ==
  \A c \in CallIds :
    (/\ Done(c) /\ calls[c].op = "product.getById"
     /\ Get(PayloadOf(c), "produto").t = "object"
     /\ AbsentOrWellWrapped(Get(Get(PayloadOf(c), "produto"), "variacoes"),
                            "variacao")
     /\ LET wrappedVars == Get(Get(PayloadOf(c), "produto"), "variacoes")
        IN \A j \in 1..Len(wrappedVars.a) :
             wrappedVars.a[j].o[1].v.t = "object")
    => LET produtoApi == Get(PayloadOf(c), "produto")
           wrappedVars == Get(produtoApi, "variacoes")
           out == calls[c].outcome
           flatVars == Get(out.value, "variacoes")
       IN /\ out.kind = "return" /\ out.value.t = "object"
          /\ \A f \in ProductUnwrappedFields :
               /\ HasKey(out.value, f[1])
               /\ AbsentOrWellWrapped(Get(produtoApi, f[1]), f[2]) =>
                    IsUnwrappingOf(Get(out.value, f[1]), Get(produtoApi, f[1]), f[2])
          /\ HasKey(out.value, "variacoes")
          /\ flatVars.t = "array"
          /\ Len(flatVars.a) = Len(wrappedVars.a)
          /\ \A j \in 1..Len(wrappedVars.a) :
               LET variacao == wrappedVars.a[j].o[1].v
               IN /\ HasKey(flatVars.a[j], "mapeamentos")
                  /\ AbsentOrWellWrapped(Get(variacao, "mapeamentos"), "mapeamento") =>
                       IsUnwrappingOf(Get(flatVars.a[j], "mapeamentos"),
                                      Get(variacao, "mapeamentos"), "mapeamento")
                  /\ OtherProps(flatVars.a[j], {"mapeamentos"})
                       = OtherProps(variacao, {"mapeamentos"})
          /\ OtherProps(out.value, {"anexos", "imagens_externas", "kit",
                                    "mapeamentos", "variacoes"})
               = OtherProps(produtoApi, {"anexos", "imagens_externas", "kit",
                                         "mapeamentos", "variacoes"})

\* A product with every nested collection and two variations, the second
\* without mapeamentos, has been returned flat.
C15_Witness ==
  \E c \in CallIds :
    /\ Done(c) /\ calls[c].op = "product.getById"
    /\ calls[c].outcome.kind = "return"
    /\ Len(Get(Get(PayloadOf(c), "produto"), "variacoes").a) = 2
    /\ ~HasKey(Get(Get(PayloadOf(c), "produto"), "variacoes").a[2].o[1].v,
               "mapeamentos")
    /\ Get(calls[c].outcome.value, "anexos") = Arr(<<Str("http://a/1.pdf")>>)
    /\ Get(calls[c].outcome.value, "kit")
         = Arr(<<Obj(<<P("id_produto", Num(5)), P("quantidade", Num(2))>>)>>)
    /\ Get(calls[c].outcome.value, "mapeamentos") = Arr(<<MapeamentoX>>)
    /\ Len(Get(calls[c].outcome.value, "imagens_externas").a) = 1
    /\ Get(Get(calls[c].outcome.value, "variacoes").a[1], "mapeamentos")
         = Arr(<<MapeamentoX>>)
    /\ Get(Get(calls[c].outcome.value, "variacoes").a[2], "mapeamentos")
         = Arr(<<>>)

\* C16: contact.getById returns the provider's contact with tipos_contato as
\* the flat list of the type labels and pessoas_contato as the flat list of
\* the person records, each in the length and order of the provider's
\* wrapped collection, the other fields unchanged.
C16_ContactGetByIdUnwraps ==
  \A c \in CallIds :
    (/\ Done(c) /\ calls[c].op = "contact.getById"
     /\ Get(PayloadOf(c), "contato").t = "object"
     /\ WellWrapped(Get(Get(PayloadOf(c), "contato"), "tipos_contato"), "tipo")
     /\ WellWrapped(Get(Get(PayloadOf(c), "contato"), "pessoas_contato"),
                    "pessoa_contato"))
    => LET contatoApi == Get(PayloadOf(c), "contato")
           out == calls[c].outcome
       IN /\ out.kind = "return" /\ out.value.t = "object"
          /\ IsUnwrappingOf(Get(out.value, "tipos_contato"),
                            Get(contatoApi, "tipos_contato"), "tipo")
          /\ IsUnwrappingOf(Get(out.value, "pessoas_contato"),
                            Get(contatoApi, "pessoas_contato"), "pessoa_contato")
          /\ Keys(out.value) = Keys(contatoApi)
          /\ OtherProps(out.value, {"tipos_contato", "pessoas_contato"})
               = OtherProps(contatoApi, {"tipos_contato", "pessoas_contato"})

\* A contact of two types and one person has been returned flat.
C16_Witness ==
  \E c \in CallIds :
    /\ Done(c) /\ calls[c].op = "contact.getById"
    /\ calls[c].outcome.kind = "return"
    /\ Len(Get(Get(PayloadOf(c), "contato"), "tipos_contato").a) = 2
    /\ Get(calls[c].outcome.value, "tipos_contato")
         = Arr(<<Str("Cliente"), Str("Fornecedor")>>)
    /\ Get(calls[c].outcome.value, "pessoas_contato") = Arr(<<PessoaBia>>)

\* C17: contact.getById on a success payload whose contact omits
\* tipos_contato or pessoas_contato returns a contact in which the omitted
\* field is the empty list; the call does not fail.
C17_OmittedContactListIsEmpty ==
  \A c \in CallIds :
    (/\ Done(c) /\ calls[c].op = "contact.getById"
     /\ Get(PayloadOf(c), "contato").t = "object")
    => \A f \in {"tipos_contato", "pessoas_contato"} :
         ~HasKey(Get(PayloadOf(c), "contato"), f) =>
           /\ calls[c].outcome.kind = "return"
           /\ Get(calls[c].outcome.value, f) = Arr(<<>>)

\* A collection with a container that lacks the expected key.
MissingKey(list, key) ==
  /\ list.t = "array"
  /\ \E i \in 1..Len(list.a) : ~HasKey(list.a[i], key)

\* The success payload of call c holds, where the operation unwraps, a
\* container without its key.
PayloadMissesKey(c) ==
  LET payload == PayloadOf(c)
      contato == Get(payload, "contato")
      produto == Get(payload, "produto")
      variacoes == Get(produto, "variacoes")
  IN CASE calls[c].op = "contact.search" ->
            MissingKey(Get(payload, "contatos"), "contato")
       [] calls[c].op = "product.search" ->
            MissingKey(Get(payload, "produtos"), "produto")
       [] calls[c].op = "contact.getById" ->
            \/ MissingKey(Get(contato, "tipos_contato"), "tipo")
            \/ MissingKey(Get(contato, "pessoas_contato"), "pessoa_contato")
       [] calls[c].op = "product.getById" ->
            \/ \E f \in ProductUnwrappedFields :
                 MissingKey(Get(produto, f[1]), f[2])
            \/ MissingKey(variacoes, "variacao")
            \/ /\ variacoes.t = "array"
               /\ \E j \in 1..Len(variacoes.a) :
                    MissingKey(Get(Get(variacoes.a[j], "variacao"), "mapeamentos"),
                               "mapeamento")
       [] calls[c].op \in WriteOperations ->
            MissingKey(Get(payload, "registros"), "registro")
       [] OTHER -> FALSE

\* C18: a success payload with a container that lacks its expected key makes
\* search, getById and the batch result path raise, rather than return a
\* collection with an undefined element.
C18_MissingKeyRaises ==
  \A c \in CallIds :
    (Done(c) /\ calls[c].transport.kind = "return" /\ PayloadMissesKey(c))
      => calls[c].outcome.kind = "throw"

\* The nested fields that getById unwraps and create wraps element by
\* element: <<resource, field, container key>>.
RoundTripFields ==
  {<<"contact", "tipos_contato", "tipo">>,
   <<"contact", "pessoas_contato", "pessoa_contato">>,
   <<"product", "anexos", "anexo">>,
   <<"product", "imagens_externas", "imagem_externa">>,
   <<"product", "kit", "item">>,
   <<"product", "mapeamentos", "mapeamento">>}

\* The name under which a resource's record travels.
RecordKey(resource) == IF resource = "contact" THEN "contato" ELSE "produto"

\* What getById of the resource yields under field for a provider record
\* that holds wrapped under it (Thrown when getById throws).
ReadBack(resource, field, wrapped) ==
  IF resource = "contact"
  THEN Get(ContactsGetByIdUnwrap(
             Obj(<<P("contato",
                     Obj(SetProp(<<P("tipos_contato", Arr(<<>>)),
                                   P("pessoas_contato", Arr(<<>>))>>,
                                 field, wrapped)))>>)).value, field)
  ELSE Get(ProductsGetByIdUnwrap(
             Obj(<<P("produto", Obj(<<P(field, wrapped)>>))>>)).value, field)

\* What create of the resource sends under field for an entry whose record
\* holds flat under it.
WriteOut(resource, field, flat) ==
  LET entry == Entry(1, Obj(<<P(field, flat)>>))
  IN IF resource = "contact"
     THEN Get(Get(ContactsWrapEntry(entry), "contato"), field)
     ELSE Get(Get(ProductsWrapEntry(entry), "produto"), field)

\* The same for the mapeamentos of one variation.
ReadBackVarMapeamentos(wrapped) ==
  Get(ProductsCleanVariacao(
        Obj(<<P("variacao", Obj(<<P("mapeamentos", wrapped)>>))>>)), "mapeamentos")

WriteOutVarMapeamentos(flat) ==
  Get(Get(ProductsWrapVariacao(Obj(<<P("mapeamentos", flat)>>)), "variacao"),
      "mapeamentos")

\* A wrapped variacoes whose containers hold a variation record each, the
\* variation's mapeamentos absent or well wrapped.
WellWrappedVariacoes(w) ==
  /\ WellWrapped(w, "variacao")
  /\ \A j \in 1..Len(w.a) :
       /\ w.a[j].o[1].v.t = "object"
       /\ AbsentOrWellWrapped(Get(w.a[j].o[1].v, "mapeamentos"), "mapeamento")

\* A flat variacoes: a list of variation records, mapeamentos a list if any.
FlatVariacoes(f) ==
  /\ f.t = "array"
  /\ \A j \in 1..Len(f.a) :
       /\ f.a[j].t = "object"
       /\ Get(f.a[j], "mapeamentos").t \in {"undefined", "array"}

\* A variation record with mapeamentos: [] added when it has none.
WithMapeamentos(v) ==
  IF HasKey(v, "mapeamentos") THEN v
  ELSE Spread(v, <<P("mapeamentos", Arr(<<>>))>>)

FlatWithMapeamentos(f) == Arr([j \in 1..Len(f.a) |-> WithMapeamentos(f.a[j])])

WrappedWithMapeamentos(w) ==
  Arr([j \in 1..Len(w.a) |-> Obj(<<P("variacao", WithMapeamentos(w.a[j].o[1].v))>>)])

\* A getById call that returned a record, and a create/update call that
\* built its batch.
ReadDone(c) ==
  /\ Done(c) /\ calls[c].op \in {"contact.getById", "product.getById"}
  /\ calls[c].outcome.kind = "return"
  /\ Get(PayloadOf(c), RecordKey(ResourceOf(calls[c].op))).t = "object"

WriteBuilt(c) ==
  /\ Started(c) /\ calls[c].op \in WriteOperations
  /\ calls[c].apiPayload.t = "object"

\* The record the provider sent to a getById call; the records a write call
\* was given and the ones it built.
ProviderRecord(c) == Get(PayloadOf(c), RecordKey(ResourceOf(calls[c].op)))

GivenRecord(c, i) == Get(calls[c].a1.a[i], "data")

BuiltRecord(c, i) ==
  Get(calls[c].apiPayload.o[1].v.a[i], RecordKey(ResourceOf(calls[c].op)))

\* The round trip of the fields wrapped element by element, and of the
\* mapeamentos of each variation: wrapping what getById returned for a well
\* wrapped W gives W, unwrapping what create built from a flat F gives F.
ElementwiseRoundTrip ==
  \A c \in CallIds :
    /\ ReadDone(c) =>
         /\ \A f \in RoundTripFields :
              (f[1] = ResourceOf(calls[c].op)
               /\ WellWrapped(Get(ProviderRecord(c), f[2]), f[3]))
              => WriteOut(f[1], f[2], Get(calls[c].outcome.value, f[2]))
                   = Get(ProviderRecord(c), f[2])
         /\ WellWrappedVariacoes(Get(ProviderRecord(c), "variacoes")) =>
              \A j \in 1..Len(Get(ProviderRecord(c), "variacoes").a) :
                LET w == Get(Get(ProviderRecord(c), "variacoes").a[j].o[1].v,
                             "mapeamentos")
                    flat == Get(Get(calls[c].outcome.value, "variacoes").a[j],
                                "mapeamentos")
                IN w.t = "array" => WriteOutVarMapeamentos(flat) = w
    /\ WriteBuilt(c) =>
         \A i \in 1..Len(calls[c].a1.a) :
           /\ \A f \in RoundTripFields :
                (f[1] = ResourceOf(calls[c].op)
                 /\ Get(GivenRecord(c, i), f[2]).t = "array")
                => ReadBack(f[1], f[2], Get(BuiltRecord(c, i), f[2]))
                     = Get(GivenRecord(c, i), f[2])
           /\ FlatVariacoes(Get(GivenRecord(c, i), "variacoes")) =>
                \A j \in 1..Len(Get(GivenRecord(c, i), "variacoes").a) :
                  LET flat == Get(Get(GivenRecord(c, i), "variacoes").a[j],
                                  "mapeamentos")
                      w == Get(Get(BuiltRecord(c, i), "variacoes").a[j].o[1].v,
                               "mapeamentos")
                  IN flat.t = "array" => ReadBackVarMapeamentos(w) = flat

\* C19 (as stated): the round trip holds for every nested field handled by
\* getById and create, variacoes included: wrapping the unwrapped form of a
\* well-formed wrapped collection W reproduces W, and unwrapping the wrapped
\* form of a flat collection F reproduces F.
C19_RoundTrip ==
  /\ ElementwiseRoundTrip
  /\ \A c \in CallIds :
       /\ (ReadDone(c) /\ WellWrappedVariacoes(Get(ProviderRecord(c), "variacoes")))
          => WriteOut("product", "variacoes",
                      Get(calls[c].outcome.value, "variacoes"))
               = Get(ProviderRecord(c), "variacoes")
       /\ WriteBuilt(c) =>
            \A i \in 1..Len(calls[c].a1.a) :
              FlatVariacoes(Get(GivenRecord(c, i), "variacoes"))
              => ReadBack("product", "variacoes",
                          Get(BuiltRecord(c, i), "variacoes"))
                   = Get(GivenRecord(c, i), "variacoes")

\* C19 (amended): the round trip holds for the fields wrapped element by
\* element and for each variation's mapeamentos, the empty collection
\* included; for variacoes it reproduces the collection with mapeamentos: []
\* added to every variation that has no mapeamentos, so it reproduces the
\* collection itself when every variation carries a mapeamentos list.
C19_RoundTripUpToEmptyMapeamentos ==
  /\ ElementwiseRoundTrip
  /\ \A c \in CallIds :
       /\ (ReadDone(c) /\ WellWrappedVariacoes(Get(ProviderRecord(c), "variacoes")))
          => WriteOut("product", "variacoes",
                      Get(calls[c].outcome.value, "variacoes"))
               = WrappedWithMapeamentos(Get(ProviderRecord(c), "variacoes"))
       /\ WriteBuilt(c) =>
            \A i \in 1..Len(calls[c].a1.a) :
              FlatVariacoes(Get(GivenRecord(c, i), "variacoes"))
              => ReadBack("product", "variacoes",
                          Get(BuiltRecord(c, i), "variacoes"))
                   = FlatWithMapeamentos(Get(GivenRecord(c, i), "variacoes"))

\* A product read with every nested collection filled and two variations,
\* one of them without mapeamentos: wrapping the result again gives the
\* provider's anexos, and the provider's variacoes but for the added
\* mapeamentos: [].
C19_Witness ==
  \E c \in CallIds :
    /\ ReadDone(c) /\ calls[c].op = "product.getById"
    /\ WellWrappedVariacoes(Get(ProviderRecord(c), "variacoes"))
    /\ Len(Get(ProviderRecord(c), "variacoes").a) = 2
    /\ Len(Get(ProviderRecord(c), "anexos").a) = 1
    /\ WriteOut("product", "anexos", Get(calls[c].outcome.value, "anexos"))
         = Get(ProviderRecord(c), "anexos")
    /\ WriteOut("product", "variacoes", Get(calls[c].outcome.value, "variacoes"))
         # Get(ProviderRecord(c), "variacoes")
    /\ WriteOut("product", "variacoes", Get(calls[c].outcome.value, "variacoes"))
         = WrappedWithMapeamentos(Get(ProviderRecord(c), "variacoes"))

\* The field under which a search returns its records and the key of the
\* provider's containers.
SearchListKey(op) == IF op = "contact.search" THEN "contatos" ELSE "produtos"

Alone(c) ==
  LET mine == calls[c]
      invoked == Invoked(sdk.httpClient, mine.op, mine.a1, mine.a2)
  IN CASE mine.pc = "json" -> Resolved(invoked, mine.httpStatus, mine.body)
       [] mine.pc = "done" /\ mine.settled = "rejected" ->
            Rejected(invoked, mine.networkError)
       [] mine.pc = "done" /\ mine.settled = "resolved" ->
            Parsed(Resolved(invoked, mine.httpStatus, mine.body))
       [] OTHER -> invoked

\* C21: calls on one instance do not interfere: whatever other calls are in
\* flight and in whatever order the fetches settle, each call's request and
\* outcome are those of the call run alone with the same arguments and the
\* same provider response, and the instance keeps the client it was built
\* with.
C21_CallsDoNotInterfere ==
  /\ \A c \in CallIds :
       Started(c) =>
         LET alone == Alone(c)
         IN /\ calls[c].request = alone.request
            /\ calls[c].transport = alone.transport
            /\ calls[c].outcome = alone.outcome
            /\ calls[c] = alone
  /\ sdk.st = "ready" => sdk.httpClient = TinyV2HttpClient(sdk.given)

\* Two calls of different operations were in flight together; the one has
\* returned while the other still awaits its fetch.
C21_Witness ==
  \E c, d \in CallIds :
    /\ c # d
    /\ Done(c) /\ calls[c].op = "product.create"
    /\ calls[c].outcome.kind = "return"
    /\ calls[d].pc = "fetch" /\ calls[d].op = "contact.search"
    /\ calls[d].request # calls[c].request
    /\ calls[d] = Alone(d)

SettlesOnce(c) ==
  /\ (calls[c].pc = "fetch" /\ calls'[c] # calls[c]) =>
       /\ calls'[c].fetches = calls[c].fetches
       /\ \/ calls'[c].settled = "rejected" /\ calls'[c].pc = "done"
          \/ calls'[c].settled = "resolved" /\ calls'[c].pc = "json"
  /\ (calls[c].pc = "json" /\ calls'[c] # calls[c]) =>
       /\ calls'[c].fetches = calls[c].fetches
       /\ calls'[c].settled = "resolved" /\ calls'[c].pc = "done"
       /\ calls'[c].outcome.kind \in {"return", "throw"}

\* C23: every call completes, by returning or by raising, once its network
\* exchange has settled: a rejected fetch ends the call at once, a resolved
\* one leads to the outcome with no further fetch, loop or retry; a call
\* leaves the await of fetch only by the fetch settling, so a call whose
\* fetch never settles never completes.
C23_CompletesOnceSettled ==
  /\ [][\A c \in CallIds : SettlesOnce(c)]_vars
  /\ \A c \in 1..1 : (calls[c].pc = "json") ~> (calls[c].pc = "done")
  /\ \A c \in 1..1 :
       [](calls[c].pc = "done" =>
            \/ calls[c].settled \in {"rejected", "resolved"}
            \/ calls[c].fetches = 0)

\* A call whose fetch resolved with an envelope of status "Processando" has
\* completed after its one fetch.
C23_Witness ==
  \E c \in CallIds :
    /\ Done(c) /\ calls[c].settled = "resolved" /\ calls[c].fetches = 1
    /\ Get(RetornoOf(calls[c].body), "status") = Str("Processando")
    /\ calls[c].outcome.kind \in {"return", "throw"}

\* The status the transport reads from a parsed body: retorno.status, which
\* is undefined when retorno has no such field.
StatusOf(body) == Get(RetornoOf(body), "status")

\* C24: the transport treats a parsed body as a success unless retorno.status
\* is exactly "Erro": with any other status, or with no status at all, it
\* returns retorno, the success payload, and raises no TinyApiError; it raises
\* TinyApiError only for the status "Erro".
C24_SuccessUnlessErro ==
  \A c \in CallIds :
    (Done(c) /\ calls[c].settled = "resolved" /\ calls[c].body.json
       /\ ~IsThrown(StatusOf(calls[c].body)))
    => IF StatusOf(calls[c].body) = Str("Erro")
       THEN calls[c].transport.name = "TinyApiError"
       ELSE calls[c].transport = Return(RetornoOf(calls[c].body))

C24_Witness ==
  \E c \in CallIds :
    /\ Done(c) /\ calls[c].settled = "resolved"
    /\ StatusOf(calls[c].body) \in {Str("Processando"), Str("erro"), Undef}
    /\ calls[c].transport.kind = "return"
    /\ calls[c].transport.value = RetornoOf(calls[c].body)

\* A parsed body with no retorno to read a status from: the JSON value null,
\* an object without the field, or an object whose retorno is null.
HasNoRetorno(body) ==
  /\ body.json
  /\ \/ IsNullish(body.value)
     \/ IsNullish(RetornoOf(body))

\* C25: a response body that is valid JSON but has no retorno object never
\* yields a successful result: for every operation the call raises, and what
\* it raises is neither a TinyApiError nor the Error of the parse failure (it
\* is the TypeError of reading status from nothing).
C25_NoRetornoRaisesUndocumented ==
  \A c \in CallIds :
    (Done(c) /\ calls[c].settled = "resolved" /\ HasNoRetorno(calls[c].body))
    => /\ calls[c].outcome.kind = "throw"
       /\ calls[c].outcome.name \notin {"TinyApiError", "Error"}
       /\ ~Contains(calls[c].outcome.message, InvalidJsonPrefix)
       /\ calls[c].outcome = ThrowTypeError

C25_Witness ==
  \E c \in CallIds :
    /\ Done(c) /\ calls[c].op = "product.create"
    /\ calls[c].httpStatus = 200
    /\ calls[c].body = JsonBody(Obj(<<>>))
    /\ calls[c].outcome.name = "TypeError"

\* a1 is an entries list a caller may pass to a write operation.
IsGivenBatch(op, a1) ==
  /\ a1.t = "array"
  /\ \A i \in 1..Len(a1.a) :
       a1.a[i] \in (IF op = "product.create" THEN ProductEntries ELSE ContactEntries)

BatchKey(op) == IF op = "product.create" THEN "produtos" ELSE "contatos"

\* The nested collections a write operation wraps element by element, each
\* with the key of its containers.
WrappedFields(op) ==
  IF op = "product.create" THEN ProductWrappedFields \cup {<<"variacoes", "variacao">>}
  ELSE {<<"tipos_contato", "tipo">>, <<"pessoas_contato", "pessoa_contato">>}

\* The record sent for the i-th entry of a write call.
SentRecord(call, i) ==
  Get(Get(call.apiPayload, BatchKey(call.op)).a[i], RecordKey(ResourceOf(call.op)))

\* C27: in the record sent for an entry (the payload is built before the
\* fetch and stays as it is, see C26), sequencia and the nested collections
\* are those the method computed, whatever data holds under the same names:
\* sequencia is the entry's own one, also when data carries a sequencia, and
\* each nested collection appears once, as one-key containers, one per given
\* element, never as the flat list of data.
C27_ComputedFieldsWin ==
  \A c \in CallIds :
    (calls[c].op \in WriteOperations /\ calls[c].pc = "fetch")
    => \A i \in 1..Len(calls[c].a1.a) :
         LET entry == calls[c].a1.a[i]
             data == Get(entry, "data")
             sent == SentRecord(calls[c], i)
         IN /\ Get(sent, "sequencia") = Get(entry, "sequencia")
            /\ Occurrences(Keys(sent), "sequencia") = 1
            /\ \A f \in WrappedFields(calls[c].op) :
                 LET given == Get(data, f[1])
                     wrapped == Get(sent, f[1])
                 IN /\ Occurrences(Keys(sent), f[1]) = 1
                    /\ wrapped.t = "array"
                    /\ \A j \in 1..Len(wrapped.a) : Keys(wrapped.a[j]) = <<f[2]>>
                    /\ Len(wrapped.a) = IF HasKey(data, f[1]) THEN Len(given.a) ELSE 0
                    /\ \A j \in 1..Len(wrapped.a) :
                         f[1] # "variacoes" => Get(wrapped.a[j], f[2]) = given.a[j]

C27_Witness ==
  \E c \in CallIds :
    /\ calls[c].op = "product.create" /\ calls[c].pc = "fetch"
    /\ Len(calls[c].a1.a) = 1
    /\ Get(calls[c].a1.a[1], "sequencia") = Num(2)
    /\ Get(Get(calls[c].a1.a[1], "data"), "sequencia") = Num(9)
    /\ Get(SentRecord(calls[c], 1), "sequencia") = Num(2)
    /\ Get(SentRecord(calls[c], 1), "kit").a[1] =
         Obj(<<P("item", Get(Get(calls[c].a1.a[1], "data"), "kit").a[1])>>)

\* The values of the query parameters of a request that are named key.
ParamValues(req, key) ==
  {req.searchParams[i].v : i \in {j \in 1..Len(req.searchParams) :
                                    req.searchParams[j].k = key}}

\* C28: for every request of an SDK instance the token parameter is the token
\* given at construction and the URL is https://api.tiny.com.br/api2 followed
\* by the operation's endpoint; no argument of an operation changes the token
\* or the host.
C28_TokenAndHostFixed ==
  \A c \in CallIds :
    calls[c].fetches > 0
    => /\ calls[c].request.url = "https://api.tiny.com.br/api2" \o Endpoint(calls[c].op)
       /\ ParamValues(calls[c].request, "token") = {String(sdk.given)}

SearchOperations == {"contact.search", "product.search"}

\* The query parameters of a request that follow token and formato.
Forwarded(req) == SubSeq(req.searchParams, 3, Len(req.searchParams))

\* The keys of the options argument of a search (none when it is left out).
OptionKeys(options) ==
  IF options.t = "object" THEN {options.o[i].k : i \in 1..Len(options.o)} ELSE {}

\* C29: search forwards every key present in the options object as a query
\* parameter, exactly once, with the value String(value): a key that is left
\* out is not sent, and a key present with the value undefined or null is sent
\* with the text "undefined" or "null".
C29_OptionsForwarded ==
  \A c \in CallIds :
    (Started(c) /\ calls[c].op \in SearchOperations)
    => LET sent == Forwarded(calls[c].request)
           options == calls[c].a2
       IN /\ \A key \in OptionKeys(options) :
               /\ Occurrences(Keys([o |-> sent]), key) = 1
               /\ \E i \in 1..Len(sent) :
                    sent[i] = [k |-> key, v |-> String(Get(options, key))]
          /\ \A i \in 1..Len(sent) :
               sent[i].k \in OptionKeys(options) \cup {"pesquisa"}
          /\ \A key \in OptionKeys(options) :
               /\ Get(options, key) = Undef
                  => [k |-> key, v |-> "undefined"] \in {sent[i] : i \in 1..Len(sent)}
               /\ Get(options, key) = Null
                  => [k |-> key, v |-> "null"] \in {sent[i] : i \in 1..Len(sent)}

C29_Witness ==
  \E c \in CallIds :
    /\ calls[c].pc = "fetch" /\ calls[c].op = "product.search"
    /\ calls[c].a2 = Obj(<<P("gtin", Null), P("pagina", Undef)>>)
    /\ Forwarded(calls[c].request) =
         <<[k |-> "pesquisa", v |-> "mouse"], [k |-> "gtin", v |-> "null"],
           [k |-> "pagina", v |-> "undefined"]>>

\* The nested collections getById of a resource unwraps.
UnwrappedKeys(resource) ==
  IF resource = "contact" THEN {"tipos_contato", "pessoas_contato"}
  ELSE {"anexos", "imagens_externas", "kit", "mapeamentos", "variacoes"}

\* A getById call that returned a record read from a provider record.
GetByIdReturned(c) ==
  /\ Done(c) /\ calls[c].op \in {"contact.getById", "product.getById"}
  /\ calls[c].outcome.kind = "return"
  /\ ProviderRecord(c).t = "object"

\* C30: getById changes nothing but the listed nested collections: the other
\* fields of the provider's record are returned with the provider's names,
\* values and order, none dropped and none added, and so are the fields of
\* every variation other than its mapeamentos.
C30_GetByIdFrame ==
  \A c \in CallIds :
    GetByIdReturned(c)
    => LET listed == UnwrappedKeys(ResourceOf(calls[c].op))
           given == ProviderRecord(c)
           out == calls[c].outcome.value
           wrappedVars == Get(given, "variacoes")
           flatVars == Get(out, "variacoes")
       IN /\ OtherProps(out, listed) = OtherProps(given, listed)
          /\ {Keys(out)[i] : i \in 1..Len(out.o)} \ listed
               = {Keys(given)[i] : i \in 1..Len(given.o)} \ listed
          /\ \A k \in listed : Occurrences(Keys(out), k) = 1
          /\ (calls[c].op = "product.getById" /\ wrappedVars.t = "array")
             => /\ Len(flatVars.a) = Len(wrappedVars.a)
                /\ \A j \in 1..Len(wrappedVars.a) :
                     LET variacao == Get(wrappedVars.a[j], "variacao")
                     IN /\ OtherProps(flatVars.a[j], {"mapeamentos"})
                             = OtherProps(variacao, {"mapeamentos"})
                        /\ Occurrences(Keys(flatVars.a[j]), "mapeamentos") = 1

C30_Witness ==
  \E c \in CallIds :
    /\ GetByIdReturned(c) /\ calls[c].op = "product.getById"
    /\ Len(Get(ProviderRecord(c), "variacoes").a) = 2
    /\ OtherProps(ProviderRecord(c), UnwrappedKeys("product")) # <<>>
    /\ OtherProps(Get(calls[c].outcome.value, "variacoes").a[1], {"mapeamentos"})
         = OtherProps(Get(Get(ProviderRecord(c), "variacoes").a[1], "variacao"),
                      {"mapeamentos"})
    /\ OtherProps(Get(calls[c].outcome.value, "variacoes").a[1], {"mapeamentos"}) # <<>>

====
